---- MODULE Spec2Model ----
(***************************************************************************)
(* A model of the compilation core of the gateway:                         *)
(*   - the call operator (src/src/blueprint/operators/call.rs):            *)
(*     compile_call and the template substitution it performs;             *)
(*   - the lowering and the introspection pass of from_document            *)
(*     (src/src/config/from_document.rs);                                  *)
(*   - the request handler of the server (src/src/http/server.rs);         *)
(*   - the resolver contexts (src/src/lambda/resolver_context_like.rs).    *)
(* Text that is parsed as a template is a sequence of lexical tokens       *)
(* ("{{", "}}", ".", and runs of other characters); every other text is a   *)
(* string.  Optional values are sequences of length 0 (None) or 1 (Some).  *)
(***************************************************************************)
EXTENDS Integers, Sequences, FiniteSets, TLC

VARIABLES
    pc,             \* position of the operation under analysis
    config_module,  \* compile_call: the configuration (type name -> fields)
    call,           \* compile_call: the call directive (query, mutation, args)
    target,         \* compile_call: the resolved (field, field_name, args)
    compiled,       \* compile_call: what compiling the target's resolver returned
    result,         \* compile_call: the returned Valid<Expression>, or a panic
    ran,            \* compile_call: the steps that were executed, in order
    doc_fields,     \* from_document: lowered fields in iteration order
    lowered,        \* from_document: did lowering (lines 23-25) succeed
    seed,           \* from_document: initialize_introspection_cache, if any
    cache,          \* from_document: config.introspection_cache
    idx,            \* from_document: index of the next field to visit
    fetches,        \* from_document: base URLs passed to introspect_endpoint, in order
    outcome,        \* from_document: the returned NeoValid<Config>
    document,       \* lowering: the parsed ServiceDocument
    schema,         \* lowering: what schema_definition(&doc) returned
    lowered_config, \* lowering: the NeoValid<Config> of lines 23-25
    blueprint,      \* server: blueprint.server of the running server
    executors,      \* server: the executor created for each connection
    exchanges,      \* server: the last request handled, with its response
    base_ctx,       \* resolver context: the base context
    supplied,       \* resolver context: the maps given to with_args, in order
    context,        \* resolver context: the context built so far
    ctx_errors,     \* resolver context: the errors the base context holds
    reported        \* resolver context: the errors given to add_error, in order

callVars  == <<config_module, call, target, compiled, result, ran>>
introVars == <<doc_fields, lowered, seed, cache, idx, fetches, outcome>>
lowerVars == <<document, schema, lowered_config>>
serverVars == <<blueprint, executors, exchanges>>
ctxVars   == <<base_ctx, supplied, context, ctx_errors, reported>>
vars      == <<pc, config_module, call, target, compiled, result, ran,
               doc_fields, lowered, seed, cache, idx, fetches, outcome,
               document, schema, lowered_config, blueprint, executors, exchanges,
               base_ctx, supplied, context, ctx_errors, reported>>

---------------------------------------------------------------------------
(* Option<T> *)
None == <<>>
Some(v) == <<v>>
IsSome(o) == o # <<>>
Unwrap(o) == o[1]

---------------------------------------------------------------------------
(* The validation algebra: a value, or a list of {message, trace}.  A      *)
(* panic (a failed unwrap or an index out of range) is a third outcome.    *)
Succeed(v) == [kind |-> "succeed", value |-> v]
Fail(msg) == [kind |-> "fail", errors |-> <<[message |-> msg, trace |-> <<>>]>>]
Trace(valid, label) ==
    IF valid.kind = "fail"
    THEN [valid EXCEPT !.errors =
            [i \in DOMAIN valid.errors |->
                [valid.errors[i] EXCEPT !.trace = <<label>> \o @]]]
    ELSE valid
FromOption(opt, msg) == IF IsSome(opt) THEN Succeed(Unwrap(opt)) ELSE Fail(msg)
PanicResult == [kind |-> "panic"]

---------------------------------------------------------------------------
(* Templates.  A Mustache is a sequence of segments.                       *)
Literal(text) == [kind |-> "Literal", text |-> text, path |-> <<>>]
Expression(path) == [kind |-> "Expression", text |-> "", path |-> path]
PanicSegment == [kind |-> "Panic", text |-> "", path |-> <<>>]

Delimiters == {"{{", "}}", "."}

RECURSIVE Concat(_)
Concat(toks) == IF toks = <<>> THEN "" ELSE Head(toks) \o Concat(Tail(toks))

RECURSIVE JoinWith(_, _)
JoinWith(strs, sep) ==
    IF strs = <<>> THEN ""
    ELSE IF Len(strs) = 1 THEN strs[1]
    ELSE strs[1] \o sep \o JoinWith(Tail(strs), sep)

\* index of the first token equal to tok at or after position i, 0 if none
RECURSIVE IndexFrom(_, _, _)
IndexFrom(s, tok, i) ==
    IF i > Len(s) THEN 0
    ELSE IF s[i] = tok THEN i
    ELSE IndexFrom(s, tok, i + 1)

\* name ("." name)*
IsPath(toks) ==
    /\ Len(toks) % 2 = 1
    /\ \A i \in DOMAIN toks :
          IF i % 2 = 1 THEN toks[i] \notin Delimiters ELSE toks[i] = "."
PathOf(toks) == [i \in 1..((Len(toks) + 1) \div 2) |-> toks[2 * i - 1]]

RECURSIVE ParseFrom(_, _)
ParseFrom(s, i) ==
    IF i > Len(s) THEN <<>>
    ELSE IF s[i] = "{{"
    THEN LET j == IndexFrom(s, "}}", i + 1) IN
         IF j = 0 \/ ~IsPath(SubSeq(s, i + 1, j - 1))
         THEN <<Literal(Concat(SubSeq(s, i, Len(s))))>>
         ELSE <<Expression(PathOf(SubSeq(s, i + 1, j - 1)))>> \o ParseFrom(s, j + 1)
    ELSE LET o == IndexFrom(s, "{{", i)
             k == IF o = 0 THEN Len(s) + 1 ELSE o
         IN  <<Literal(Concat(SubSeq(s, i, k - 1)))>> \o ParseFrom(s, k)

\* Mustache::parse: literal runs and {{ a.b }} expressions; no empty literal
MustacheParse(s) ==
    SelectSeq(ParseFrom(s, 1), LAMBDA seg : ~(seg.kind = "Literal" /\ seg.text = ""))

SegmentToString(seg) ==
    IF seg.kind = "Literal" THEN seg.text
    ELSE "{{" \o JoinWith(seg.path, ".") \o "}}"
\* Mustache::to_string: the text a template re-serialises to
MustacheToString(m) == Concat([i \in DOMAIN m |-> SegmentToString(m[i])])

Panicked(m) == \E i \in DOMAIN m : m[i].kind = "Panic"

---------------------------------------------------------------------------
(* call.rs: substitution of the call's arguments into a template           *)

\* args is the iterator over call.args, a map from key to value
find_value(args, key) == IF key \in DOMAIN args THEN Some(args[key]) ELSE None

\* replace_segment leaving the args expression where it is
replace_segment_keeps_expression(segment, args) ==
    IF segment.kind = "Literal" THEN Literal(segment.text)
    ELSE IF segment.path[1] = "args"
    THEN IF Len(segment.path) < 2 THEN PanicSegment
         ELSE IF find_value(args, segment.path[2]) = None THEN PanicSegment
         ELSE Expression(segment.path)
    ELSE Expression(segment.path)

\* replace_segment splicing the looked-up text in without parsing it
replace_segment_as_literal(segment, args) ==
    IF segment.kind = "Literal" THEN Literal(segment.text)
    ELSE IF segment.path[1] = "args"
    THEN IF Len(segment.path) < 2 THEN PanicSegment
         ELSE LET value == find_value(args, segment.path[2]) IN
              IF value = None \/ Unwrap(value) = <<>> THEN PanicSegment
              ELSE Literal(Concat(Unwrap(value)))
    ELSE Expression(segment.path)

\* the closure of replace_mustache_value, applied to one segment
replace_segment(segment, args) ==
    IF segment.kind = "Literal" THEN Literal(segment.text)
    ELSE IF segment.path[1] = "args"
    THEN IF Len(segment.path) < 2 THEN PanicSegment          \* expression[1]
         ELSE LET value == find_value(args, segment.path[2]) IN
              IF value = None THEN PanicSegment              \* find_value(..).unwrap()
              ELSE LET item == MustacheParse(Unwrap(value)) IN
                   IF item = <<>> THEN PanicSegment          \* .first().unwrap()
                   ELSE item[1]
    ELSE Expression(segment.path)

\* replace_mustache_value splicing in every segment of the re-parsed value
RECURSIVE SpliceAll(_, _)
SpliceAll(value, args) ==
    IF value = <<>> THEN <<>>
    ELSE (IF Head(value).kind = "Expression" /\ Head(value).path[1] = "args"
             /\ Len(Head(value).path) >= 2
             /\ find_value(args, Head(value).path[2]) # None
             /\ MustacheParse(Unwrap(find_value(args, Head(value).path[2]))) # <<>>
          THEN MustacheParse(Unwrap(find_value(args, Head(value).path[2])))
          ELSE <<replace_segment(Head(value), args)>>)
         \o SpliceAll(Tail(value), args)
replace_mustache_value_splices_all(value, args) == SpliceAll(value, args)

\* lines 296-317
replace_mustache_value(value, args) ==
    [i \in DOMAIN value |-> replace_segment(value[i], args)]

\* a (key, template) pair of a header, query or operation-argument list
replace_mustache(pair, args) == <<pair[1], replace_mustache_value(pair[2], args)>>

MapPairs(pairs, args) == [i \in DOMAIN pairs |-> replace_mustache(pairs[i], args)]
MapOption(opt, args) ==
    IF IsSome(opt) THEN Some(replace_mustache_value(Unwrap(opt), args)) ELSE None

PairsPanicked(pairs) == \E i \in DOMAIN pairs : Panicked(pairs[i][2])
OptionPanicked(opt) == IsSome(opt) /\ Panicked(Unwrap(opt))

---------------------------------------------------------------------------
(* The IO expressions and the shared resolver compilation.  compile_http,  *)
(* compile_graphql and compile_grpc parse the directive's texts into a     *)
(* request template; whether they fail and the loader they assign is the   *)
(* input `how`.                                                            *)
ParsePairs(pairs) == [i \in DOMAIN pairs |-> <<pairs[i][1], MustacheParse(pairs[i][2])>>]
ParseOption(opt) == IF IsSome(opt) THEN Some(MustacheParse(Unwrap(opt))) ELSE None

IOHttp(req_template, group_by, dl_id) ==
    [io |-> "Http", req_template |-> req_template, group_by |-> group_by, dl_id |-> dl_id]
IOGraphQL(req_template, field_name, batch, dl_id) ==
    [io |-> "GraphQL", req_template |-> req_template, field_name |-> field_name,
     batch |-> batch, dl_id |-> dl_id]
IOGrpc(req_template, group_by, dl_id) ==
    [io |-> "Grpc", req_template |-> req_template, group_by |-> group_by, dl_id |-> dl_id]

CompileFailure == Fail("resolver compilation failed")

compile_http(field, http, how) ==
    IF how.fails THEN CompileFailure
    ELSE Succeed(IOHttp([root_url  |-> MustacheParse(http.url),
                         query     |-> ParsePairs(http.query),
                         headers   |-> ParsePairs(http.headers),
                         body_path |-> ParseOption(http.body)],
                        http.group_by, how.dl_id))

compile_graphql(graphql, how) ==
    IF how.fails THEN CompileFailure
    ELSE Succeed(IOGraphQL([url |-> graphql.url,
                            operation_name |-> graphql.name,
                            operation_arguments |->
                                IF IsSome(graphql.args)
                                THEN Some(ParsePairs(Unwrap(graphql.args))) ELSE None,
                            headers |-> ParsePairs(graphql.headers)],
                           graphql.name, graphql.batch, how.dl_id))

compile_grpc(field, grpc, how) ==
    IF how.fails THEN CompileFailure
    ELSE Succeed(IOGrpc([url     |-> MustacheParse(grpc.url),
                         headers |-> ParsePairs(grpc.headers),
                         body    |-> ParseOption(grpc.body)],
                        grpc.group_by, how.dl_id))

---------------------------------------------------------------------------
(* call.rs: the three transforms.  Each compiles the target's resolver and *)
(* rebuilds the IO node around the substituted request template.           *)

\* transform_http rebuilding the node without the loader of the compiled one
transform_http_drops_loader(field, http, args, how) ==
    LET expr == compile_http(field, http, how) IN
    IF expr.kind # "succeed" THEN expr
    ELSE LET io == expr.value
             t1 == [io.req_template EXCEPT !.root_url = replace_mustache_value(@, args)]
             t2 == [t1 EXCEPT !.query = MapPairs(@, args)]
             t3 == [t2 EXCEPT !.headers = MapPairs(@, args)]
             t4 == [t3 EXCEPT !.body_path = MapOption(@, args)]
         IN  IF \/ Panicked(t4.root_url) \/ PairsPanicked(t4.query)
                \/ PairsPanicked(t4.headers) \/ OptionPanicked(t4.body_path)
             THEN PanicResult
             ELSE Succeed(IOHttp(t4, io.group_by, None))

transform_http(field, http, args, how) ==
    LET expr == compile_http(field, http, how) IN
    IF expr.kind # "succeed" THEN expr
    ELSE LET io == expr.value
             t1 == [io.req_template EXCEPT !.root_url = replace_mustache_value(@, args)]
             t2 == [t1 EXCEPT !.query = MapPairs(@, args)]
             t3 == [t2 EXCEPT !.headers = MapPairs(@, args)]
             t4 == [t3 EXCEPT !.body_path = MapOption(@, args)]
         IN  IF \/ Panicked(t4.root_url) \/ PairsPanicked(t4.query)
                \/ PairsPanicked(t4.headers) \/ OptionPanicked(t4.body_path)
             THEN PanicResult
             ELSE Succeed(IOHttp(t4, io.group_by, io.dl_id))

\* transform_graphql substituting in the headers only
transform_graphql_skips_arguments(graphql, args, how) ==
    LET expr == compile_graphql(graphql, how) IN
    IF expr.kind # "succeed" THEN expr
    ELSE LET io == expr.value
             t1 == [io.req_template EXCEPT !.headers = MapPairs(@, args)]
         IN  IF PairsPanicked(t1.headers)
             THEN PanicResult
             ELSE Succeed(IOGraphQL(t1, io.field_name, io.batch, io.dl_id))

transform_graphql(graphql, args, how) ==
    LET expr == compile_graphql(graphql, how) IN
    IF expr.kind # "succeed" THEN expr
    ELSE LET io == expr.value
             t1 == [io.req_template EXCEPT !.headers = MapPairs(@, args)]
             t2 == IF IsSome(t1.operation_arguments)
                   THEN [t1 EXCEPT !.operation_arguments =
                                        Some(MapPairs(Unwrap(@), args))]
                   ELSE t1
         IN  IF \/ PairsPanicked(t2.headers)
                \/ (IsSome(t2.operation_arguments)
                        /\ PairsPanicked(Unwrap(t2.operation_arguments)))
             THEN PanicResult
             ELSE Succeed(IOGraphQL(t2, io.field_name, io.batch, io.dl_id))

transform_grpc(field, grpc, args, how) ==
    LET expr == compile_grpc(field, grpc, how) IN
    IF expr.kind # "succeed" THEN expr
    ELSE LET io == expr.value
             t1 == [io.req_template EXCEPT !.url = replace_mustache_value(@, args)]
             t2 == [t1 EXCEPT !.headers = MapPairs(@, args)]
             t3 == [t2 EXCEPT !.body = MapOption(@, args)]
         IN  IF \/ Panicked(t3.url) \/ PairsPanicked(t3.headers)
                \/ OptionPanicked(t3.body)
             THEN PanicResult
             ELSE Succeed(IOGrpc(t3, io.group_by, io.dl_id))

---------------------------------------------------------------------------
(* call.rs: resolution of the call's target                                *)

\* get_type_and_field looking at the mutation first
get_type_and_field_mutation_first(c) ==
    IF IsSome(c.mutation) THEN Some(<<"Mutation", Unwrap(c.mutation)>>)
    ELSE IF IsSome(c.query) THEN Some(<<"Query", Unwrap(c.query)>>)
    ELSE None

get_type_and_field(c) ==
    IF IsSome(c.query) THEN Some(<<"Query", Unwrap(c.query)>>)
    ELSE IF IsSome(c.mutation) THEN Some(<<"Mutation", Unwrap(c.mutation)>>)
    ELSE None

\* Config::find_type
find_type(config, type_name) ==
    IF type_name \in DOMAIN config.types THEN Some(config.types[type_name]) ELSE None

get_field_and_field_name(c, cm) ==
    LET tf == FromOption(get_type_and_field(c), "call must have query or mutation") IN
    IF tf.kind = "fail" THEN tf
    ELSE LET type_name  == tf.value[1]
             field_name == tf.value[2]
             query_type == FromOption(find_type(cm.config, type_name),
                                      type_name \o " type not found on config")
         IN  IF query_type.kind = "fail" THEN query_type
             ELSE LET fields == query_type.value.fields
                      found  == FromOption(
                                  IF field_name \in DOMAIN fields
                                  THEN Some(fields[field_name]) ELSE None,
                                  field_name \o " field not found")
                  IN  IF found.kind = "fail" THEN found
                      ELSE Succeed([field |-> found.value,
                                    field_name |-> field_name,
                                    args |-> c.args])

---------------------------------------------------------------------------
(* call.rs: compile_call                                                   *)

\* every name of the model, in the order a BTreeMap iterates its keys
NameOrder == <<"id", "lang", "postId", "zz">>
SortedKeys(m) == SelectSeq(NameOrder, LAMBDA n : n \in DOMAIN m)

\* empties stopping at the first missing argument
empties_first_only(_field, args) ==
    LET all == SelectSeq(SortedKeys(_field.args), LAMBDA k : k \notin DOMAIN args) IN
    IF all = <<>> THEN <<>> ELSE <<all[1]>>

\* empties that finds no missing argument
empties_none(_field, args) == <<>>

\* the declared arguments of the target that are no key of the call's args
empties(_field, args) == SelectSeq(SortedKeys(_field.args), LAMBDA k : k \notin DOMAIN args)

Quoted(names) == [i \in DOMAIN names |-> "'" \o names[i] \o "'"]

missing_arguments(_field, field_name, args) ==
    Trace(Fail("no argument " \o JoinWith(Quoted(empties(_field, args)), ", ") \o " found"),
          field_name)

\* dispatch accepting a field without http, graphql or grpc directive
dispatch_without_resolver(field, _field, field_name, args, how) ==
    IF IsSome(_field.http) THEN transform_http(field, Unwrap(_field.http), args, how)
    ELSE IF IsSome(_field.graphql) THEN transform_graphql(Unwrap(_field.graphql), args, how)
    ELSE IF IsSome(_field.grpc) THEN transform_grpc(field, Unwrap(_field.grpc), args, how)
    ELSE IF IsSome(_field.call) \/ IsSome(_field.const_field)
    THEN Fail(field_name \o " field has no resolver")
    ELSE Succeed([io |-> "None"])

\* the dispatch on the target's resolver, lines 115-132
dispatch(field, _field, field_name, args, how) ==
    IF IsSome(_field.http) THEN transform_http(field, Unwrap(_field.http), args, how)
    ELSE IF IsSome(_field.graphql) THEN transform_graphql(Unwrap(_field.graphql), args, how)
    ELSE IF IsSome(_field.grpc) THEN transform_grpc(field, Unwrap(_field.grpc), args, how)
    ELSE Fail(field_name \o " field has no resolver")

\* what compiling the target field's own resolver yields (the shared routine)
compile_resolver(field, _field, how) ==
    IF IsSome(_field.http) THEN Some(compile_http(field, Unwrap(_field.http), how))
    ELSE IF IsSome(_field.graphql) THEN Some(compile_graphql(Unwrap(_field.graphql), how))
    ELSE IF IsSome(_field.grpc) THEN Some(compile_grpc(field, Unwrap(_field.grpc), how))
    ELSE None

---------------------------------------------------------------------------
(* The inputs of compile_call                                              *)

ArgsId     == <<"{{", "args", ".", "id", "}}">>
ArgsLang   == <<"{{", "args", ".", "lang", "}}">>
ArgsPostId == <<"{{", "args", ".", "postId", "}}">>
PostsId    == <<"/posts/">> \o ArgsId
Posts      == <<"/posts">>
Mixed      == ArgsId \o <<"/", "{{", "value", ".", "uid", "}}", "/">> \o ArgsLang
Undeclared == <<"/u/", "{{", "args", ".", "zz", "}}">>
BareArgs   == <<"{{", "args", "}}">>

\* the texts of a resolver directive: url, query, headers, body, group_by
Directives == <<
    [url |-> PostsId, query |-> <<>>, headers |-> <<>>, body |-> None,
     group_by |-> None],
    [url |-> Posts,
     query |-> << <<"q1", ArgsId>>, <<"q2", <<"x">> >> >>,
     headers |-> << <<"h1", ArgsLang>>, <<"h2", <<"{{", "headers", ".", "auth", "}}">> >>,
                    <<"h1", <<"lit">> >> >>,
     body |-> Some(ArgsId), group_by |-> Some("id")],
    [url |-> Mixed, query |-> << <<"q", PostsId>> >>, headers |-> << <<"h", Mixed>> >>,
     body |-> Some(Posts), group_by |-> None],
    [url |-> Undeclared, query |-> <<>>, headers |-> <<>>, body |-> None,
     group_by |-> None],
    [url |-> Posts, query |-> <<>>, headers |-> << <<"h", BareArgs>> >>, body |-> None,
     group_by |-> Some("id")] >>

HttpOf(d) == [url |-> d.url, query |-> d.query, headers |-> d.headers, body |-> d.body,
              group_by |-> d.group_by]
GraphQLOf(d) == [url |-> Concat(d.url), name |-> "posts",
                 args |-> IF d.query = <<>> THEN None ELSE Some(d.query),
                 headers |-> d.headers, batch |-> IsSome(d.group_by)]
GrpcOf(d) == [url |-> d.url, headers |-> d.headers, body |-> d.body,
              group_by |-> d.group_by]

ResolverKinds == {"http", "graphql", "grpc", "http_graphql", "call", "const", "none"}
DeclaredArgs  == {{}, {"id"}, {"id", "lang"}}

\* a field of a root type; doc tells the fields of the configuration apart
FieldOf(doc, declared, kind, d) ==
    [doc     |-> doc,
     args    |-> [k \in declared |-> [type_of |-> "ID", required |-> TRUE]],
     http    |-> IF kind \in {"http", "http_graphql"} THEN Some(HttpOf(d)) ELSE None,
     graphql |-> IF kind \in {"graphql", "http_graphql"} THEN Some(GraphQLOf(d)) ELSE None,
     grpc    |-> IF kind = "grpc" THEN Some(GrpcOf(d)) ELSE None,
     call    |-> IF kind = "call" THEN Some("posts") ELSE None,
     const_field |-> IF kind = "const" THEN Some("1") ELSE None]

TypeOf(type_name, names, declared, kind, d) ==
    [fields |-> [n \in names |-> FieldOf(type_name \o "." \o n, declared, kind, d)]]

\* the field sets of Query and of Mutation; None: the type is not in the config
QueryFields    == {None, Some({"post"}), Some({"post", "user"})}
MutationFields == {None, Some({"post"})}

ConfigOf(q, m, declared, kind, d) ==
    [config |-> [types |->
        [t \in (IF IsSome(q) THEN {"Query"} ELSE {}) \cup
               (IF IsSome(m) THEN {"Mutation"} ELSE {}) |->
            TypeOf(t, IF t = "Query" THEN Unwrap(q) ELSE Unwrap(m), declared, kind, d)]]]

ConfigModules ==
    {ConfigOf(q, m, declared, kind, Directives[v]) :
        q \in QueryFields, m \in MutationFields, declared \in DeclaredArgs,
        kind \in ResolverKinds, v \in DOMAIN Directives}

\* the values a call may give a key
ArgValues == [id   |-> {<<"1">>, <<>>, ArgsPostId, <<"x">> \o ArgsPostId},
              lang |-> {<<"en">>},
              zz   |-> {<<"z">>}]
CallArgs == UNION {{a \in [K -> UNION {ArgValues[k] : k \in K}] :
                        \A k \in K : a[k] \in ArgValues[k]} : K \in SUBSET DOMAIN ArgValues}

Calls == [query : {None, Some("post"), Some("user")},
          mutation : {None, Some("post")},
          args : CallArgs]

\* the field that carries the call directive
CallerField == [doc |-> "caller", args |-> [k \in {"postId"} |-> [type_of |-> "ID", required |-> TRUE]]]

\* what the shared resolver compilation does: fail, or assign a loader
Hows == [fails : BOOLEAN, dl_id : {None, Some(1)}]

NoResult == [kind |-> "none"]

---------------------------------------------------------------------------
(* the other operations are idle while compile_call is analysed            *)
LowerIdle ==
    /\ document = <<>>
    /\ schema = <<>>
    /\ lowered_config = NoResult

ServerIdle ==
    /\ blueprint = <<>>
    /\ executors = <<>>
    /\ exchanges = <<>>

CtxIdle ==
    /\ base_ctx = <<>>
    /\ supplied = <<>>
    /\ context = <<>>
    /\ ctx_errors = <<>>
    /\ reported = <<>>

IntroIdle ==
    /\ doc_fields = <<>>
    /\ lowered = FALSE
    /\ seed = None
    /\ cache = <<>>
    /\ idx = 0
    /\ fetches = <<>>
    /\ outcome = NoResult

Init ==
    /\ pc = "start"
    /\ config_module \in ConfigModules
    /\ call \in Calls
    /\ target = None
    /\ compiled = None
    /\ result = NoResult
    /\ ran = <<>>
    /\ IntroIdle
    /\ LowerIdle
    /\ ServerIdle
    /\ CtxIdle

\* line 96: get_field_and_field_name(call, config_module)
Resolve ==
    /\ pc = "start"
    /\ LET r == get_field_and_field_name(call, config_module) IN
       /\ ran' = Append(ran, "resolve")
       /\ IF r.kind = "fail"
          THEN /\ result' = r
               /\ target' = target
               /\ pc' = "done"
          ELSE /\ result' = result
               /\ target' = Some(r.value)
               /\ pc' = "resolved"
    /\ UNCHANGED <<config_module, call, compiled>>
    /\ UNCHANGED <<introVars, lowerVars, serverVars, ctxVars>>

\* lines 97-113: the completeness check
CheckArguments ==
    /\ pc = "resolved"
    /\ LET t == Unwrap(target) IN
       /\ ran' = Append(ran, "check")
       /\ IF Len(empties(t.field, t.args)) > 0
          THEN /\ result' = missing_arguments(t.field, t.field_name, t.args)
               /\ pc' = "done"
          ELSE /\ result' = result
               /\ pc' = "complete"
    /\ UNCHANGED <<config_module, call, target, compiled>>
    /\ UNCHANGED <<introVars, lowerVars, serverVars, ctxVars>>

\* lines 115-132: compile the target's resolver and substitute
Dispatch ==
    /\ pc = "complete"
    /\ \E how \in Hows :
          LET t == Unwrap(target)
              c == compile_resolver(CallerField, t.field, how)
          IN  /\ compiled' = c
              /\ result' = dispatch(CallerField, t.field, t.field_name, t.args, how)
              /\ ran' = ran \o (IF IsSome(c) THEN <<"compile">> ELSE <<>>)
                            \o (IF IsSome(c) /\ Unwrap(c).kind = "succeed"
                                THEN <<"substitute">> ELSE <<>>)
    /\ pc' = "done"
    /\ UNCHANGED <<config_module, call, target>>
    /\ UNCHANGED <<introVars, lowerVars, serverVars, ctxVars>>

Next == Resolve \/ CheckArguments \/ Dispatch

Spec == Init /\ [][Next]_vars

---------------------------------------------------------------------------
(* Vocabulary of the properties of compile_call                            *)

Resolved     == IsSome(target)
TargetField  == Unwrap(target).field
TargetName   == Unwrap(target).field_name
\* the declared arguments of the target that the call gives no value
Missing      == {k \in DOMAIN TargetField.args : k \notin DOMAIN call.args}
CheckPassed  == Resolved /\ pc \in {"complete", "done"} /\ Missing = {}
Succeeded    == pc = "done" /\ result.kind = "succeed"
\* the IO node the target's resolver compiles to, and the one compile_call returns
DirectIO     == Unwrap(compiled).value
CallIO       == result.value

PairValues(pairs) == [i \in DOMAIN pairs |-> pairs[i][2]]
PairNames(pairs)  == [i \in DOMAIN pairs |-> pairs[i][1]]
\* every template of an IO node's request template, in a fixed order
TemplatesOf(io) ==
    LET rt == io.req_template IN
    IF io.io = "Http"
    THEN <<rt.root_url>> \o PairValues(rt.query) \o PairValues(rt.headers) \o rt.body_path
    ELSE IF io.io = "GraphQL"
    THEN PairValues(rt.headers)
         \o (IF IsSome(rt.operation_arguments)
             THEN PairValues(Unwrap(rt.operation_arguments)) ELSE <<>>)
    ELSE <<rt.url>> \o PairValues(rt.headers) \o rt.body

IsArgsExpression(seg) == seg.kind = "Expression" /\ seg.path[1] = "args"
IsPlainText(v) == \A i \in DOMAIN v : v[i] \notin {"{{", "}}"}
IsSingleExpression(v) ==
    /\ Len(v) >= 3 /\ v[1] = "{{" /\ v[Len(v)] = "}}"
    /\ IsPath(SubSeq(v, 2, Len(v) - 1))

\* the positions (j, i) of the args expressions of the target's templates
\* whose key the call maps to a value
ArgsPositions ==
    LET ts == TemplatesOf(DirectIO) IN
    {p \in UNION {{<<j, i>> : i \in DOMAIN ts[j]} : j \in DOMAIN ts} :
        /\ IsArgsExpression(ts[p[1]][p[2]])
        /\ Len(ts[p[1]][p[2]].path) >= 2
        /\ ts[p[1]][p[2]].path[2] \in DOMAIN call.args}
KeyAt(p)   == TemplatesOf(DirectIO)[p[1]][p[2]].path[2]
After(p)   == TemplatesOf(CallIO)[p[1]][p[2]]
HasAfter(p) == p[1] \in DOMAIN TemplatesOf(CallIO) /\ p[2] \in DOMAIN TemplatesOf(CallIO)[p[1]]

---------------------------------------------------------------------------
PerNameMessages(names) == [i \in DOMAIN names |-> "no argument '" \o names[i] \o "' found"]
Separators == {"", " ", ", ", "; ", "\n"}
\* C1 (as claimed): when declared arguments of the target are missing from
\* the call's mapping, compile_call fails with one failure, traced with the
\* target field's name, whose message is "no argument '<name>' found" for
\* each missing name, joined; when none is missing, no such failure.
C1_PerNameMessages ==
    (Resolved /\ pc = "done" /\ Missing # {}) =>
        /\ result.kind = "fail"
        /\ Len(result.errors) = 1
        /\ result.errors[1].trace = <<TargetName>>
        /\ \E sep \in Separators :
              result.errors[1].message =
                  JoinWith(PerNameMessages(SortedKeys([k \in Missing |-> TRUE])), sep)

MissingMessage(names) ==
    CASE names = {"id"} -> "no argument 'id' found"
      [] names = {"lang"} -> "no argument 'lang' found"
      [] names = {"id", "lang"} -> "no argument 'id', 'lang' found"
      [] OTHER -> "?"
\* C1 (amended): the one failure's message is "no argument ", the missing
\* names in key order, each quoted and joined by ", ", then " found"; its
\* trace is the target field's name; with no name missing there is no such
\* failure.
C1_MissingArguments ==
    (Resolved /\ pc \in {"complete", "done"}) =>
        IF Missing # {}
        THEN /\ pc = "done"
             /\ result.kind = "fail"
             /\ Len(result.errors) = 1
             /\ result.errors[1].trace = <<TargetName>>
             /\ result.errors[1].message = MissingMessage(Missing)
        ELSE result.kind = "fail" =>
                \A i \in DOMAIN result.errors :
                    result.errors[i].message \notin
                        {MissingMessage(n) : n \in (SUBSET {"id", "lang"}) \ {{}}}
C1_Witness ==
    /\ pc = "done" /\ Resolved /\ Missing = {"id", "lang"}
    /\ DOMAIN call.args = {"zz"}
    /\ result.kind = "fail"
    /\ result.errors[1].message = "no argument 'id', 'lang' found"
    /\ result.errors[1].trace = <<"post">>

---------------------------------------------------------------------------
ChosenType == IF IsSome(call.query) THEN "Query" ELSE "Mutation"
ChosenName == IF IsSome(call.query) THEN Unwrap(call.query) ELSE Unwrap(call.mutation)
OnlyFailure(msg) ==
    /\ pc = "done" /\ ~Resolved
    /\ result.kind = "fail"
    /\ Len(result.errors) = 1
    /\ result.errors[1].message = msg
\* C2: resolution fails with "call must have query or mutation" when the
\* call sets neither, with "<Type> type not found on config" when the root
\* type is absent, with "<field> field not found" when the type lacks the
\* field, and otherwise yields exactly the named field of the chosen root
\* type, its name and the call's argument mapping.
C2_TargetResolution ==
    pc # "start" =>
        IF call.query = None /\ call.mutation = None
        THEN OnlyFailure("call must have query or mutation")
        ELSE IF ChosenType \notin DOMAIN config_module.config.types
        THEN OnlyFailure(IF IsSome(call.query) THEN "Query type not found on config"
                         ELSE "Mutation type not found on config")
        ELSE IF ChosenName \notin DOMAIN config_module.config.types[ChosenType].fields
        THEN OnlyFailure(IF ChosenName = "post" THEN "post field not found"
                         ELSE "user field not found")
        ELSE /\ Resolved
             /\ TargetField = config_module.config.types[ChosenType].fields[ChosenName]
             /\ TargetField.doc = ChosenType \o "." \o ChosenName
             /\ TargetName = ChosenName
             /\ Unwrap(target).args = call.args
C2_Witness ==
    /\ pc = "resolved"
    /\ IsSome(call.query) /\ IsSome(call.mutation)
    /\ {"Query", "Mutation"} \subseteq DOMAIN config_module.config.types
    /\ TargetField.doc = "Query.post"
    /\ DOMAIN call.args = {"id", "lang"}

---------------------------------------------------------------------------
NoDirective(f) ==
    /\ f.http = None /\ f.graphql = None /\ f.grpc = None
    /\ f.call = None /\ f.const_field = None
\* C3: when the target field has none of the http, graphql, grpc, call and
\* const directives and the completeness check passed, compile_call fails
\* with "<field> field has no resolver" and yields no Expression.
C3_NoResolver ==
    (pc = "done" /\ CheckPassed /\ NoDirective(TargetField)) =>
        /\ result.kind = "fail"
        /\ Len(result.errors) = 1
        /\ result.errors[1].message =
              (IF TargetName = "post" THEN "post field has no resolver"
               ELSE "user field has no resolver")
        /\ compiled = None
C3_Witness ==
    /\ pc = "done" /\ CheckPassed /\ NoDirective(TargetField)
    /\ TargetName = "user"
    /\ DOMAIN TargetField.args = {"id"}
    /\ result.kind = "fail"
    /\ result.errors[1].message = "user field has no resolver"

---------------------------------------------------------------------------
\* C4: in the compiled template, every {{args.k}} expression of the target's
\* request template whose key k the call maps to plain text v is the literal
\* v; the url "/posts/{{args.id}}" with args {id: "1"} re-serialises to
\* "/posts/1", in which no args expression is left.
C4_LiteralSubstitution ==
    Succeeded =>
        /\ \A p \in ArgsPositions :
              IsPlainText(call.args[KeyAt(p)]) =>
                  HasAfter(p) /\ After(p) = Literal(Concat(call.args[KeyAt(p)]))
        /\ (/\ DirectIO.io = "Http"
            /\ MustacheToString(DirectIO.req_template.root_url) = "/posts/{{args.id}}"
            /\ call.args["id"] = <<"1">>) =>
                /\ MustacheToString(CallIO.req_template.root_url) = "/posts/1"
                /\ \A i \in DOMAIN CallIO.req_template.root_url :
                      CallIO.req_template.root_url[i].kind = "Literal"
C4_Witness ==
    /\ Succeeded
    /\ DirectIO.io = "Http"
    /\ MustacheToString(DirectIO.req_template.root_url) = "/posts/{{args.id}}"
    /\ call.args["id"] = <<"1">>
    /\ CallIO.req_template.root_url = <<Literal("/posts/"), Literal("1")>>

---------------------------------------------------------------------------
\* C5: every {{args.k}} expression of the target's request template whose
\* key k the call maps to a single expression {{args.p}} is, in the compiled
\* template, the expression {{args.p}} itself; the url "/posts/{{args.id}}"
\* with args {id: "{{args.postId}}"} compiles to "/posts/{{args.postId}}".
C5_ForwardingSubstitution ==
    Succeeded =>
        /\ \A p \in ArgsPositions :
              IsSingleExpression(call.args[KeyAt(p)]) =>
                  /\ HasAfter(p)
                  /\ After(p) = Expression(PathOf(SubSeq(call.args[KeyAt(p)], 2,
                                                    Len(call.args[KeyAt(p)]) - 1)))
        /\ (/\ DirectIO.io = "Http"
            /\ MustacheToString(DirectIO.req_template.root_url) = "/posts/{{args.id}}"
            /\ call.args["id"] = ArgsPostId) =>
                /\ MustacheToString(CallIO.req_template.root_url) = "/posts/{{args.postId}}"
                /\ CallIO.req_template.root_url[2] = Expression(<<"args", "postId">>)
C5_Witness ==
    /\ Succeeded
    /\ DirectIO.io = "Http"
    /\ MustacheToString(DirectIO.req_template.root_url) = "/posts/{{args.id}}"
    /\ call.args["id"] = ArgsPostId
    /\ "postId" \notin DOMAIN call.args
    /\ CallIO.req_template.root_url = <<Literal("/posts/"), Expression(<<"args", "postId">>)>>

---------------------------------------------------------------------------
\* C6: a successful compile_call returns an IO node of the variant, group
\* key, loader identity, field name and batch flag of the node the target
\* compiles to directly; only the request template may differ.
C6_LoaderAndBatchPreserved ==
    Succeeded =>
        /\ IsSome(compiled) /\ Unwrap(compiled).kind = "succeed"
        /\ CallIO.io = DirectIO.io
        /\ CallIO.dl_id = DirectIO.dl_id
        /\ CallIO.io \in {"Http", "Grpc"} => CallIO.group_by = DirectIO.group_by
        /\ CallIO.io = "GraphQL" =>
              /\ CallIO.field_name = DirectIO.field_name
              /\ CallIO.batch = DirectIO.batch
        /\ [CallIO EXCEPT !.req_template = DirectIO.req_template] = DirectIO
C6_Witness ==
    /\ Succeeded
    /\ CallIO.io = "Http"
    /\ CallIO.group_by = Some("id")
    /\ CallIO.dl_id = Some(1)
    /\ CallIO.req_template # DirectIO.req_template

---------------------------------------------------------------------------
\* C7: once the completeness check has passed, every args expression of the
\* target's request template names a key of the call's mapping whose value
\* parses to at least one segment, and the substitution does not abort.
C7_SubstitutionNeverAborts ==
    (pc = "done" /\ CheckPassed /\ IsSome(compiled) /\ Unwrap(compiled).kind = "succeed") =>
        /\ \A j \in DOMAIN TemplatesOf(DirectIO) :
              \A i \in DOMAIN TemplatesOf(DirectIO)[j] :
                  LET seg == TemplatesOf(DirectIO)[j][i] IN
                  IsArgsExpression(seg) =>
                      /\ Len(seg.path) >= 2
                      /\ seg.path[2] \in DOMAIN call.args
                      /\ MustacheParse(call.args[seg.path[2]]) # <<>>
        /\ result.kind # "panic"

---------------------------------------------------------------------------
Substituted(m) == replace_mustache_value(m, call.args)
SamePairs(after, before) ==
    /\ Len(after) = Len(before)
    /\ \A i \in DOMAIN before :
          /\ after[i][1] = before[i][1]
          /\ after[i][2] = Substituted(before[i][2])
SameOption(after, before) ==
    IF IsSome(before) THEN after = Some(Substituted(Unwrap(before))) ELSE after = None
\* C8: in a successful compile_call every template of the compiled request
\* (url or root url, each query value, each header value, body, each
\* operation argument) is the substitution, with the call's mapping, of the
\* target's template at the same place, and the header, query and operation
\* argument lists keep their names, length and order.
C8_EveryComponentSubstituted ==
    Succeeded =>
        LET a == CallIO.req_template
            b == DirectIO.req_template
        IN  /\ CallIO.io = DirectIO.io
            /\ CallIO.io = "Http" =>
                  /\ a.root_url = Substituted(b.root_url)
                  /\ SamePairs(a.query, b.query)
                  /\ SamePairs(a.headers, b.headers)
                  /\ SameOption(a.body_path, b.body_path)
            /\ CallIO.io = "GraphQL" =>
                  /\ SamePairs(a.headers, b.headers)
                  /\ IsSome(a.operation_arguments) = IsSome(b.operation_arguments)
                  /\ IsSome(b.operation_arguments) =>
                        SamePairs(Unwrap(a.operation_arguments), Unwrap(b.operation_arguments))
            /\ CallIO.io = "Grpc" =>
                  /\ a.url = Substituted(b.url)
                  /\ SamePairs(a.headers, b.headers)
                  /\ SameOption(a.body, b.body)
            /\ \A j \in DOMAIN TemplatesOf(CallIO) :
                  \A i \in DOMAIN TemplatesOf(CallIO)[j] :
                      TemplatesOf(CallIO)[j][i].kind \in {"Literal", "Expression"}
C8_Witness ==
    /\ Succeeded
    /\ CallIO.io = "Http"
    /\ PairNames(CallIO.req_template.headers) = <<"h1", "h2", "h1">>
    /\ PairNames(CallIO.req_template.query) = <<"q1", "q2">>
    /\ CallIO.req_template.headers[1][2] = <<Literal("en")>>
    /\ CallIO.req_template.headers[2][2] = <<Expression(<<"headers", "auth">>)>>
    /\ CallIO.req_template.query[1][2] = <<Expression(<<"args", "postId">>)>>
    /\ CallIO.req_template.body_path = Some(<<Expression(<<"args", "postId">>)>>)

---------------------------------------------------------------------------
Before(j) == TemplatesOf(DirectIO)[j]
Replaced(j) == TemplatesOf(CallIO)[j]
\* the compiled node that was substituted is the one the compile returned
InputUnmodified ==
    \E how \in Hows : compiled = compile_resolver(CallerField, TargetField, how)

\* C18: in every compile_call that returns, each template of the result has
\* as many segments as the target's template at the same place; a Literal
\* and an Expression whose first path element is not "args" are unchanged
\* at the same position; each args expression is replaced by one segment,
\* the first segment of its re-parsed value; the target's compiled
\* templates are not modified.
C18_SegmentBySegment ==
    Succeeded =>
        /\ DOMAIN TemplatesOf(CallIO) = DOMAIN TemplatesOf(DirectIO)
        /\ \A j \in DOMAIN TemplatesOf(DirectIO) :
              /\ Len(Replaced(j)) = Len(Before(j))
              /\ \A i \in DOMAIN Before(j) :
                    IF IsArgsExpression(Before(j)[i])
                    THEN /\ Replaced(j)[i].kind \in {"Literal", "Expression"}
                         /\ Replaced(j)[i] =
                               MustacheParse(call.args[Before(j)[i].path[2]])[1]
                    ELSE Replaced(j)[i] = Before(j)[i]
        /\ InputUnmodified
C18_Witness ==
    /\ Succeeded
    /\ DirectIO.io = "Http"
    /\ DirectIO.req_template.root_url =
          <<Expression(<<"args", "id">>), Literal("/"), Expression(<<"value", "uid">>),
            Literal("/"), Expression(<<"args", "lang">>)>>
    /\ call.args["id"] = <<"x">> \o ArgsPostId
    /\ CallIO.req_template.root_url =
          <<Literal("x"), Literal("/"), Expression(<<"value", "uid">>),
            Literal("/"), Literal("en")>>

---------------------------------------------------------------------------
\* the call names no root, or a root type or a field the configuration lacks
ResolutionFails ==
    IF call.query = None /\ call.mutation = None THEN TRUE
    ELSE IF ChosenType \notin DOMAIN config_module.config.types THEN TRUE
    ELSE ChosenName \notin DOMAIN config_module.config.types[ChosenType].fields
Steps == <<"resolve", "check", "compile", "substitute">>
OneFailure == result.kind = "fail" /\ Len(result.errors) = 1

\* C19: the steps of compile_call run in order; when resolution fails only
\* that one failure is reported and no later step runs; when the
\* completeness check fails the target's resolver is not compiled and
\* nothing is substituted; substitution runs only after the target's
\* resolver compiled successfully, and a failed compilation is returned as
\* it is.
C19_ShortCircuitInStepOrder ==
    /\ Len(ran) <= Len(Steps) /\ ran = SubSeq(Steps, 1, Len(ran))
    /\ pc = "done" =>
          /\ ResolutionFails =>
                ran = <<"resolve">> /\ OneFailure /\ target = None /\ compiled = None
          /\ (~ResolutionFails /\ Missing # {}) =>
                ran = <<"resolve", "check">> /\ OneFailure /\ compiled = None
          /\ Len(ran) = 4 => IsSome(compiled) /\ Unwrap(compiled).kind = "succeed"
          /\ (IsSome(compiled) /\ Unwrap(compiled).kind = "fail") =>
                ran = <<"resolve", "check", "compile">> /\ result = Unwrap(compiled)
C19_Witness ==
    /\ pc = "done"
    /\ ~ResolutionFails
    /\ Missing = {"lang"}
    /\ IsSome(TargetField.http)
    /\ ran = <<"resolve", "check">>
    /\ compiled = None
    /\ result.errors[1].message = "no argument 'lang' found"

---------------------------------------------------------------------------
(* from_document.rs: the introspection pass                                *)

EmptyMap == [x \in {} |-> 0]
Put(map, key, value) == [x \in DOMAIN map \cup {key} |-> IF x = key THEN value ELSE map[x]]

\* introspect_endpoint(base_url): the fetch, which succeeds or does not
introspect_endpoint(base_url, ok) ==
    IF ok THEN [ok |-> TRUE, value |-> "schema fetched from " \o base_url]
    ELSE [ok |-> FALSE, error |-> "cannot reach " \o base_url]

\* update_introspection that does not store the fetched result in the cache
update_introspection_without_insert(graphqlsource, introspection_cache, ok) ==
    IF IsSome(graphqlsource.base_url)
    THEN LET base_url == Unwrap(graphqlsource.base_url) IN
         IF base_url \in DOMAIN introspection_cache
         THEN [valid |-> Succeed([graphqlsource EXCEPT
                                    !.introspection = Some(introspection_cache[base_url])]),
               cache |-> introspection_cache,
               fetched |-> <<>>]
         ELSE LET introspection_result == introspect_endpoint(base_url, ok) IN
              IF introspection_result.ok
              THEN [valid |-> Succeed([graphqlsource EXCEPT
                                    !.introspection = Some(introspection_result.value)]),
                    cache |-> introspection_cache,
                    fetched |-> <<[url |-> base_url, ok |-> TRUE]>>]
              ELSE [valid |-> Fail(introspection_result.error),
                    cache |-> introspection_cache,
                    fetched |-> <<[url |-> base_url, ok |-> FALSE]>>]
    ELSE [valid |-> Trace(Fail("No base url found for graphql directive"), "introspection"),
          cache |-> introspection_cache,
          fetched |-> <<>>]

\* update_introspection that fetches without looking in the cache
update_introspection_always_fetches(graphqlsource, introspection_cache, ok) ==
    IF IsSome(graphqlsource.base_url)
    THEN LET base_url == Unwrap(graphqlsource.base_url)
             introspection_result == introspect_endpoint(base_url, ok)
         IN  IF introspection_result.ok
             THEN [valid |-> Succeed([graphqlsource EXCEPT
                                   !.introspection = Some(introspection_result.value)]),
                   cache |-> Put(introspection_cache, base_url, introspection_result.value),
                   fetched |-> <<[url |-> base_url, ok |-> TRUE]>>]
             ELSE [valid |-> Fail(introspection_result.error),
                   cache |-> introspection_cache,
                   fetched |-> <<[url |-> base_url, ok |-> FALSE]>>]
    ELSE [valid |-> Trace(Fail("No base url found for graphql directive"), "introspection"),
          cache |-> introspection_cache,
          fetched |-> <<>>]

\* returns the NeoValid<GraphQLSource>, the cache as it leaves it, and the
\* base URL it passed to introspect_endpoint, if it did
update_introspection(graphqlsource, introspection_cache, ok) ==
    IF IsSome(graphqlsource.base_url)
    THEN LET base_url == Unwrap(graphqlsource.base_url) IN
         IF base_url \in DOMAIN introspection_cache
         THEN [valid |-> Succeed([graphqlsource EXCEPT
                                    !.introspection = Some(introspection_cache[base_url])]),
               cache |-> introspection_cache,
               fetched |-> <<>>]
         ELSE LET introspection_result == introspect_endpoint(base_url, ok) IN
              IF introspection_result.ok
              THEN [valid |-> Succeed([graphqlsource EXCEPT
                                    !.introspection = Some(introspection_result.value)]),
                    cache |-> Put(introspection_cache, base_url, introspection_result.value),
                    fetched |-> <<[url |-> base_url, ok |-> TRUE]>>]
              ELSE [valid |-> Fail(introspection_result.error),
                    cache |-> introspection_cache,
                    fetched |-> <<[url |-> base_url, ok |-> FALSE]>>]
    ELSE [valid |-> Trace(Fail("No base url found for graphql directive"), "introspection"),
          cache |-> introspection_cache,
          fetched |-> <<>>]

---------------------------------------------------------------------------
(* The inputs of from_document                                             *)

MaxFields == 3
BaseUrls == {"a", "b"}

GraphQLSources ==
    {None} \cup {Some([base_url |-> b, introspection |-> None]) :
                    b \in {None} \cup {Some(u) : u \in BaseUrls}}
\* the fields of the lowered configuration, in the order the pass visits them
FieldLists ==
    UNION {[1..n -> [graphql_source : GraphQLSources]] : n \in 0..MaxFields}
\* lines 23-25: the lowered configuration, or the failure of the lowering
Lowerings ==
    {Succeed(fs) : fs \in FieldLists} \cup {Trace(Fail("schema not found"), "schema")}
\* initialize_introspection_cache
Seeds ==
    {None} \cup {Some([u \in K |-> "schema seeded for " \o u]) : K \in SUBSET BaseUrls}

CallIdle ==
    /\ config_module = [config |-> [types |-> EmptyMap]]
    /\ call = [query |-> None, mutation |-> None, args |-> EmptyMap]
    /\ target = None
    /\ compiled = None
    /\ result = NoResult
    /\ ran = <<>>

InitIntro ==
    /\ pc = "from_document"
    /\ lowered \in Lowerings
    /\ seed \in Seeds
    /\ doc_fields = <<>>
    /\ cache = EmptyMap
    /\ idx = 0
    /\ fetches = <<>>
    /\ outcome = NoResult
    /\ CallIdle
    /\ LowerIdle
    /\ ServerIdle
    /\ CtxIdle

\* lines 23-35: lower the document, seed the cache, enter the pass
FromDocument ==
    /\ pc = "from_document"
    /\ IF lowered.kind = "succeed"
       THEN /\ doc_fields' = lowered.value
            /\ cache' = IF IsSome(seed) THEN Unwrap(seed) ELSE EmptyMap
            /\ idx' = 1
            /\ outcome' = outcome
            /\ pc' = "introspect"
       ELSE /\ outcome' = lowered
            /\ pc' = "returned"
            /\ UNCHANGED <<doc_fields, cache, idx>>
    /\ UNCHANGED <<lowered, seed, fetches>>
    /\ UNCHANGED <<callVars, lowerVars, serverVars, ctxVars>>

\* lines 348-363: one field of the pass
VisitField ==
    /\ pc = "introspect"
    /\ idx <= Len(doc_fields)
    /\ LET field == doc_fields[idx] IN
       IF IsSome(field.graphql_source)
       THEN \E ok \in BOOLEAN :
               LET updated == update_introspection(Unwrap(field.graphql_source), cache, ok) IN
               /\ cache' = updated.cache
               /\ fetches' = fetches \o updated.fetched
               /\ IF updated.valid.kind = "succeed"
                  THEN /\ doc_fields' = [doc_fields EXCEPT
                                           ![idx].graphql_source = Some(updated.valid.value)]
                       /\ idx' = idx + 1
                       /\ UNCHANGED <<pc, outcome>>
                  ELSE /\ outcome' = updated.valid
                       /\ pc' = "returned"
                       /\ UNCHANGED <<doc_fields, idx>>
       ELSE /\ idx' = idx + 1
            /\ UNCHANGED <<pc, outcome, doc_fields, cache, fetches>>
    /\ UNCHANGED <<lowered, seed>>
    /\ UNCHANGED <<callVars, lowerVars, serverVars, ctxVars>>

\* line 365: every field was visited
ReturnConfig ==
    /\ pc = "introspect"
    /\ idx > Len(doc_fields)
    /\ outcome' = Succeed([fields |-> doc_fields, introspection_cache |-> cache])
    /\ pc' = "returned"
    /\ UNCHANGED <<doc_fields, lowered, seed, cache, idx, fetches>>
    /\ UNCHANGED <<callVars, lowerVars, serverVars, ctxVars>>

NextIntro == FromDocument \/ VisitField \/ ReturnConfig

SpecIntro == InitIntro /\ [][NextIntro]_vars

---------------------------------------------------------------------------
(* Vocabulary of the properties of the introspection pass                  *)

Lowered       == lowered.kind = "succeed"
GraphQLFields == {i \in DOMAIN lowered.value : IsSome(lowered.value[i].graphql_source)}
BaseUrlOf(i)  == Unwrap(lowered.value[i].graphql_source).base_url
\* the distinct base URLs of the document's graphql directives
FieldUrls     == {Unwrap(BaseUrlOf(i)) : i \in {k \in GraphQLFields : IsSome(BaseUrlOf(k))}}
SeedKeys      == IF IsSome(seed) THEN DOMAIN Unwrap(seed) ELSE {}
FetchCount(u) == Cardinality({k \in DOMAIN fetches : fetches[k].url = u})
ReturnedConfig == pc = "returned" /\ outcome.kind = "succeed"
\* every graphql field of the returned Config has the result that the
\* returned cache holds under the field's base URL
FieldsHoldCachedResult ==
    \A i \in GraphQLFields :
        LET source == Unwrap(outcome.value.fields[i].graphql_source) IN
        /\ IsSome(source.base_url)
        /\ Unwrap(source.base_url) \in DOMAIN outcome.value.introspection_cache
        /\ source.introspection =
              Some(outcome.value.introspection_cache[Unwrap(source.base_url)])

\* C9 (as claimed): at most one fetch per distinct base URL; in a compile
\* that returns a Config, exactly one fetch for each distinct base URL of
\* the graphql fields, and every such field holds the cached result.
C9_ExactlyOneFetchPerUrl ==
    /\ \A u \in BaseUrls : FetchCount(u) <= 1
    /\ ReturnedConfig =>
          /\ \A u \in FieldUrls : FetchCount(u) = 1
          /\ FieldsHoldCachedResult

\* C9 (amended): at most one fetch per distinct base URL; in a compile that
\* returns a Config, exactly one fetch for each distinct base URL of the
\* graphql fields that the seed cache has no entry for, none for a base URL
\* the seed cache has, and every such field holds the cached result.
C9_OneFetchPerUnseededUrl ==
    /\ \A u \in BaseUrls : FetchCount(u) <= 1
    /\ ReturnedConfig =>
          /\ \A u \in FieldUrls : FetchCount(u) = (IF u \in SeedKeys THEN 0 ELSE 1)
          /\ Len(fetches) = Cardinality(FieldUrls \ SeedKeys)
          /\ FieldsHoldCachedResult
C9_Witness ==
    /\ ReturnedConfig
    /\ seed = None
    /\ GraphQLFields = {1, 2, 3}
    /\ BaseUrlOf(1) = Some("b") /\ BaseUrlOf(2) = Some("a") /\ BaseUrlOf(3) = Some("b")
    /\ fetches = <<[url |-> "b", ok |-> TRUE], [url |-> "a", ok |-> TRUE]>>
    /\ Unwrap(outcome.value.fields[3].graphql_source).introspection
            = Some("schema fetched from b")

---------------------------------------------------------------------------
\* a graphql field without base URL, or a fetch that failed
IntrospectionDefect ==
    \/ \E i \in GraphQLFields : BaseUrlOf(i) = None
    \/ \E k \in DOMAIN fetches : ~fetches[k].ok
\* the fetches made are those of the fields up to the one that failed
NoFetchAfterFailure ==
    /\ \A k \in DOMAIN fetches : ~fetches[k].ok => k = Len(fetches)
    /\ {fetches[k].url : k \in DOMAIN fetches} \subseteq
          {Unwrap(BaseUrlOf(i)) : i \in {k \in GraphQLFields : k <= idx /\ IsSome(BaseUrlOf(k))}}
\* from_document returns a failure with one of the two messages, no Config
FailureReturned ==
    /\ outcome.kind = "fail"
    /\ Len(outcome.errors) = 1
    /\ outcome.errors[1].message \in
          {"No base url found for graphql directive"} \cup
          {"cannot reach " \o u : u \in BaseUrls}
    /\ NoFetchAfterFailure

\* C10: when a graphql field has no base URL or a fetch fails, from_document
\* returns a failure whose error is traced and carries "No base url found
\* for graphql directive" or the fetch error, never a Config, and no fetch
\* follows the first failure.
C10_TracedFailure ==
    (pc = "returned" /\ Lowered /\ IntrospectionDefect) =>
        /\ FailureReturned
        /\ \A k \in DOMAIN outcome.errors : outcome.errors[k].trace # <<>>

\* what holds of the code: the same, with the trace "introspection" on the
\* missing base URL only
C10_UntracedFetchFailure ==
    (pc = "returned" /\ Lowered /\ IntrospectionDefect) =>
        /\ FailureReturned
        /\ outcome.errors[1].trace =
              (IF outcome.errors[1].message = "No base url found for graphql directive"
               THEN <<"introspection">> ELSE <<>>)

---------------------------------------------------------------------------
SeedCache == Unwrap(seed)
Fetched(ok) == {fetches[k].url : k \in {j \in DOMAIN fetches : fetches[j].ok = ok}}
InPass == pc \in {"introspect", "returned"} /\ Lowered

\* C20: given a seed cache and a successful lowering, the introspection
\* cache starts as the seed; no fetch is issued for a base URL of the seed;
\* throughout the pass the cache is the seed, unchanged, plus one entry for
\* each successfully fetched base URL and none for a failed fetch; in the
\* returned Config the cache is that cache and every field whose base URL
\* is a key of the seed holds the seeded result.
C20_SeedCacheKept ==
    (IsSome(seed) /\ InPass) =>
        /\ (idx = 1 /\ fetches = <<>>) => cache = SeedCache
        /\ \A k \in DOMAIN fetches : fetches[k].url \notin SeedKeys
        /\ \A u \in SeedKeys : u \in DOMAIN cache /\ cache[u] = SeedCache[u]
        /\ DOMAIN cache = SeedKeys \cup Fetched(TRUE)
        /\ Cardinality(DOMAIN cache) = Cardinality(SeedKeys) +
              Cardinality({k \in DOMAIN fetches : fetches[k].ok})
        /\ \A u \in Fetched(FALSE) : u \notin DOMAIN cache
        /\ ReturnedConfig =>
              /\ outcome.value.introspection_cache = cache
              /\ \A i \in GraphQLFields :
                    (IsSome(BaseUrlOf(i)) /\ Unwrap(BaseUrlOf(i)) \in SeedKeys) =>
                        Unwrap(outcome.value.fields[i].graphql_source).introspection
                            = Some(SeedCache[Unwrap(BaseUrlOf(i))])
C20_Witness ==
    /\ ReturnedConfig
    /\ seed = Some([u \in {"a"} |-> "schema seeded for a"])
    /\ GraphQLFields = {1, 2}
    /\ BaseUrlOf(1) = Some("a") /\ BaseUrlOf(2) = Some("b")
    /\ fetches = <<[url |-> "b", ok |-> TRUE]>>
    /\ Unwrap(outcome.value.fields[1].graphql_source).introspection
            = Some("schema seeded for a")
    /\ DOMAIN outcome.value.introspection_cache = {"a", "b"}
    /\ outcome.value.introspection_cache["a"] = "schema seeded for a"

---------------------------------------------------------------------------
(* from_document.rs: lowering the document to a Config (lines 23-25)       *)

\* the accumulating combinators of the validation algebra
ErrorsOf(valid) == IF valid.kind = "fail" THEN valid.errors ELSE <<>>
RECURSIVE Flatten(_)
Flatten(seqs) == IF seqs = <<>> THEN <<>> ELSE Head(seqs) \o Flatten(Tail(seqs))
Zip(a, b) ==
    IF a.kind = "succeed" /\ b.kind = "succeed"
    THEN Succeed(<<a.value, b.value>>)
    ELSE [kind |-> "fail", errors |-> ErrorsOf(a) \o ErrorsOf(b)]
\* from_iter over the results of the mapped function, in collection order
FromIter(valids) ==
    IF \A i \in DOMAIN valids : valids[i].kind = "succeed"
    THEN Succeed([i \in DOMAIN valids |-> valids[i].value])
    ELSE [kind |-> "fail",
          errors |-> Flatten([i \in DOMAIN valids |-> ErrorsOf(valids[i])])]
\* BTreeMap::from_iter over (key, value) pairs: a later pair replaces an
\* earlier one with the same key
BTreeMapFromIter(pairs) ==
    [k \in {pairs[i][1] : i \in DOMAIN pairs} |->
        LET last == CHOOSE i \in DOMAIN pairs :
                        /\ pairs[i][1] = k
                        /\ \A j \in DOMAIN pairs : pairs[j][1] = k => j <= i
        IN  pairs[last][2]]
First(S) == CHOOSE i \in S : \A j \in S : i <= j

\* T::default() of the directive's type: every setting with its default
Default(directive_name) ==
    IF directive_name \in {"server", "upstream"}
    THEN [port |-> "default", hostname |-> "default"]
    ELSE [value |-> "default"]
\* T::from_directive: the block's arguments decoded over the defaults, or a
\* failure labelled with the directive name when they are malformed
from_directive(directive) ==
    IF directive.ok
    THEN Succeed([k \in DOMAIN Default(directive.name) |->
                    IF k \in DOMAIN directive.arguments
                    THEN directive.arguments[k]
                    ELSE Default(directive.name)[k]])
    ELSE Trace(Fail("malformed arguments of " \o directive.name), directive.name)

\* .some() and .map(Some): the value wrapped in Some
SomeOf(valid) == IF valid.kind = "succeed" THEN Succeed(Some(valid.value)) ELSE valid
\* the decoding of the first of the blocks at the given positions, if any
FirstDecoded(directives, positions) ==
    IF positions = {} THEN None
    ELSE Some(from_directive(directives[First(positions)]).value)
FirstNamed(directives, positions) ==
    IF positions = {} THEN Succeed(None)
    ELSE SomeOf(from_directive(directives[First(positions)]))

\* directives.iter().find_map(|d| if d.name == name
\*                                { T::from_directive(d).to_result().ok() } else { None })
find_map_directive(directives, name) ==
    FirstDecoded(directives,
                 {i \in DOMAIN directives :
                     /\ directives[i].name = name
                     /\ from_directive(directives[i]).kind = "succeed"})
\* for d in directives { if d.name == name { return T::from_directive(d).map(Some) } }
\* NeoValid::succeed(None)
first_directive(directives, name) ==
    FirstNamed(directives, {i \in DOMAIN directives : directives[i].name = name})

to_modify(directives) == find_map_directive(directives, "modify")
to_inline(directives) == find_map_directive(directives, "inline")
to_unsafe_operation(directives) == find_map_directive(directives, "unsafe")
to_batch(directives) == find_map_directive(directives, "groupBy")
to_const_field(directives) == find_map_directive(directives, "const")
to_http(directives) == first_directive(directives, "http")
to_graphqlsource(directives) == first_directive(directives, "graphql")

to_arg(input_value_definition) ==
    [modify |-> to_modify(input_value_definition.directives)]
to_args(field_definition) ==
    BTreeMapFromIter([i \in DOMAIN field_definition.arguments |->
        <<field_definition.arguments[i].name, to_arg(field_definition.arguments[i])>>])

\* lines 222-241: the closure mapped over to_http(..).zip(to_graphqlsource(..));
\* the Field, without the members copied from the type of the definition
\* (type_of, list, required, list_type_required, doc)
common_field_of(both, args, modify, inline, directives) ==
    IF both.kind = "succeed"
    THEN Succeed([args |-> args,
                  modify |-> modify,
                  inline |-> inline,
                  http |-> both.value[1],
                  unsafe_operation |-> to_unsafe_operation(directives),
                  group_by |-> to_batch(directives),
                  const_field |-> to_const_field(directives),
                  graphql_source |-> both.value[2]])
    ELSE both
to_common_field(args, directives) ==
    common_field_of(Zip(to_http(directives), to_graphqlsource(directives)),
                    args, to_modify(directives), to_inline(directives), directives)
to_field(field_definition) ==
    to_common_field(to_args(field_definition), field_definition.directives)
to_input_object_field(field_definition) ==
    to_common_field(EmptyMap, field_definition.directives)

\* .map(BTreeMap::from_iter)
MapToBTreeMap(pairs) ==
    IF pairs.kind = "succeed" THEN Succeed(BTreeMapFromIter(pairs.value)) ELSE pairs
\* .map(|value| (name, value))
MapToPair(name, valid) ==
    IF valid.kind = "succeed" THEN Succeed(<<name, valid.value>>) ELSE valid
\* transformed: the results of the transform, one for each field in order
to_fields_inner(fields, transformed) ==
    MapToBTreeMap(FromIter([i \in DOMAIN fields |->
                               MapToPair(fields[i].name, transformed[i])]))
to_fields(fields) ==
    to_fields_inner(fields, [i \in DOMAIN fields |-> to_field(fields[i])])
to_input_object_fields(input_object_fields) ==
    to_fields_inner(input_object_fields,
                    [i \in DOMAIN input_object_fields |->
                        to_input_object_field(input_object_fields[i])])

\* config::Type { ..Default::default() }
DefaultType ==
    [fields |-> EmptyMap, interface |-> FALSE, variants |-> None, scalar |-> FALSE]
\* .map(|fields| config::Type { fields, interface, ..Default::default() })
MapToType(lowered_fields, interface) ==
    IF lowered_fields.kind = "succeed"
    THEN Succeed([DefaultType EXCEPT !.fields = lowered_fields.value,
                                     !.interface = interface])
    ELSE lowered_fields
to_object_type(fields, interface) == MapToType(to_fields(fields), interface)
to_enum(enum_type) == [DefaultType EXCEPT !.variants = Some(enum_type.values)]
to_input_object(input_object_type) ==
    MapToType(to_input_object_fields(input_object_type.fields), FALSE)
to_scalar_type == [DefaultType EXCEPT !.scalar = TRUE]
to_union(union_type) == [types |-> union_type.members]

\* to_types that lowers a union like a type without fields
to_types_each_keeps_unions(type_definition) ==
    MapToPair(type_definition.name,
        CASE type_definition.kind = "Object" ->
                SomeOf(to_object_type(type_definition.fields, FALSE))
          [] type_definition.kind = "Interface" ->
                SomeOf(to_object_type(type_definition.fields, TRUE))
          [] type_definition.kind = "Enum" -> Succeed(Some(to_enum(type_definition)))
          [] type_definition.kind = "InputObject" ->
                SomeOf(to_input_object(type_definition))
          [] type_definition.kind = "Union" -> Succeed(Some(DefaultType))
          [] type_definition.kind = "Scalar" -> Succeed(Some(to_scalar_type)))

\* lines 93-115: the function to_types maps over the type definitions
to_types_each(type_definition) ==
    MapToPair(type_definition.name,
        CASE type_definition.kind = "Object" ->
                SomeOf(to_object_type(type_definition.fields, FALSE))
          [] type_definition.kind = "Interface" ->
                SomeOf(to_object_type(type_definition.fields, TRUE))
          [] type_definition.kind = "Enum" -> Succeed(Some(to_enum(type_definition)))
          [] type_definition.kind = "InputObject" ->
                SomeOf(to_input_object(type_definition))
          [] type_definition.kind = "Union" -> Succeed(None)
          [] type_definition.kind = "Scalar" -> Succeed(Some(to_scalar_type)))

\* pairs.filter_map(|(name, option)| option.map(|tpe| (name, tpe)))
RECURSIVE FilterSome(_)
FilterSome(pairs) ==
    IF pairs = <<>> THEN <<>>
    ELSE (IF IsSome(Head(pairs)[2])
          THEN <<<<Head(pairs)[1], Unwrap(Head(pairs)[2])>>>> ELSE <<>>)
         \o FilterSome(Tail(pairs))
\* lines 117-123: .map(|vec| BTreeMap::from_iter(vec.into_iter().filter_map(..)))
MapToTypes(vec) ==
    IF vec.kind = "succeed" THEN Succeed(BTreeMapFromIter(FilterSome(vec.value))) ELSE vec
to_types(type_definitions) ==
    MapToTypes(FromIter([i \in DOMAIN type_definitions |->
                            to_types_each(type_definitions[i])]))
RECURSIVE UnionPairs(_)
UnionPairs(type_definitions) ==
    IF type_definitions = <<>> THEN <<>>
    ELSE (IF Head(type_definitions).kind = "Union"
          THEN <<<<Head(type_definitions).name, to_union(Head(type_definitions))>>>>
          ELSE <<>>)
         \o UnionPairs(Tail(type_definitions))
to_union_types(type_definitions) == BTreeMapFromIter(UnionPairs(type_definitions))

\* the first schema definition of the document
schema_definition(doc) ==
    IF doc.schema = <<>>
    THEN Trace(Fail("schema not found"), "schema")
    ELSE Succeed(Head(doc.schema))
\* res after the loop: the decoding of the last of the blocks at the given
\* positions, or T::default()
LastAssigned(directives, directive_name, positions) ==
    IF positions = {} THEN Succeed(Default(directive_name))
    ELSE from_directive(directives[CHOOSE i \in positions : \A j \in positions : j <= i])
process_schema_directives(sd, directive_name) ==
    LastAssigned(sd.directives, directive_name,
                 {i \in DOMAIN sd.directives : sd.directives[i].name = directive_name})
server(sd) == process_schema_directives(sd, "server")
upstream(sd) == process_schema_directives(sd, "upstream")
to_root_schema(sd) ==
    [query |-> sd.query, mutation |-> sd.mutation, subscription |-> sd.subscription]
\* line 49: .map(|types| GraphQL { schema, types, unions })
MapToGraphQL(types, doc, sd) ==
    IF types.kind = "succeed"
    THEN Succeed([schema |-> to_root_schema(sd),
                  types |-> types.value,
                  unions |-> to_union_types(doc.types)])
    ELSE types
graphql(doc, sd) == MapToGraphQL(to_types(doc.types), doc, sd)
\* line 25: .map(|((server, upstream), graphql)| Config { .. })
MapToConfig(zipped) ==
    IF zipped.kind = "succeed"
    THEN Succeed([server |-> zipped.value[1][1],
                  upstream |-> zipped.value[1][2],
                  graphql |-> zipped.value[2],
                  introspection_cache |-> EmptyMap])
    ELSE zipped
\* line 24-25: server(sd).zip(upstream(sd)).zip(graphql(&doc, sd)).map(Config)
lower_config(doc, sd) ==
    MapToConfig(Zip(Zip(server(sd), upstream(sd)), graphql(doc, sd)))

---------------------------------------------------------------------------
(* The documents that are lowered                                          *)

MaxDirectives == 2
MaxBlocks == 2
MaxFieldDefs == 2
MaxTypes == 2

SeqsUpTo(S, n) == UNION {[1..k -> S] : k \in 0..n}
Block(name, ok, arguments) == [name |-> name, ok |-> ok, arguments |-> arguments]

FieldDirectiveNames == {"http", "graphql", "modify", "inline", "groupBy", "const", "unsafe"}
FieldDirectives ==
    {Block(n, TRUE, [value |-> v]) : n \in FieldDirectiveNames, v \in {"1", "2"}}
    \cup {Block(n, FALSE, [value |-> "?"]) : n \in FieldDirectiveNames}
\* the arguments of a field definition: none, or one with a directive list
ArgumentLists ==
    {<<>>} \cup
    {<<[name |-> "id", directives |-> ds]>> :
        ds \in {<<>>, <<Block("modify", TRUE, [value |-> "1"])>>,
                <<Block("modify", FALSE, [value |-> "?"])>>}}
FieldNames == <<"f", "g", "h", "i">>
TypeNames == <<"A", "B", "C", "D">>
\* one field with any list of directives, or with an argument and at most
\* one directive
WideFields ==
    {[name |-> "f", directives |-> ds, arguments |-> <<>>] :
        ds \in SeqsUpTo(FieldDirectives, MaxDirectives)}
    \cup {[name |-> "f", directives |-> ds, arguments |-> as] :
            ds \in SeqsUpTo(FieldDirectives, 1), as \in ArgumentLists}
\* several fields, each with no directive or one
FewDirectives ==
    {<<>>, <<Block("http", FALSE, [value |-> "?"])>>,
           <<Block("modify", FALSE, [value |-> "?"])>>}
FieldDefLists(max) ==
    UNION {{[i \in 1..n |-> [name |-> FieldNames[i], directives |-> ds[i],
                             arguments |-> <<>>]] : ds \in [1..n -> FewDirectives]}
           : n \in 0..max}
TypeShape(kind, fields, values, members) ==
    [kind |-> kind, fields |-> fields, values |-> values, members |-> members]
\* the shapes of the definitions of a document of several types: at most
\* one field each
TypeShapes ==
    {TypeShape(k, fs, {}, {}) : k \in {"Object", "Interface", "InputObject"},
                                fs \in FieldDefLists(1)}
    \cup {TypeShape("Enum", <<>>, vs, {}) : vs \in {{}, {"X", "Y"}}}
    \cup {TypeShape("Scalar", <<>>, {}, {})}
    \cup {TypeShape("Union", <<>>, {}, ms) : ms \in {{"A"}, {"A", "B"}}}
Named(shape, name) ==
    [name |-> name, kind |-> shape.kind, fields |-> shape.fields,
     values |-> shape.values, members |-> shape.members]
\* type definitions with distinct names
TypeLists ==
    UNION {{[i \in 1..n |-> Named(shapes[i], TypeNames[i])] : shapes \in [1..n -> TypeShapes]}
           : n \in 0..MaxTypes}

SettingLists ==
    {[k \in K |-> IF k = "port" THEN p ELSE "h"] :
        K \in SUBSET {"port", "hostname"}, p \in {"1", "2"}}
SchemaBlocks ==
    {Block(n, TRUE, as) : n \in {"server", "upstream"}, as \in SettingLists}
    \cup {Block(n, FALSE, [port |-> "?"]) : n \in {"server", "upstream"}}
SchemaOf(directives) ==
    [directives |-> directives, query |-> Some("Query"),
     mutation |-> None, subscription |-> None]
Doc(schemas, types) == [schema |-> schemas, types |-> types]
Documents ==
    {Doc(<<SchemaOf(bs)>>, <<>>) : bs \in SeqsUpTo(SchemaBlocks, MaxBlocks)}
    \cup {Doc(<<SchemaOf(<<>>)>>, <<Named(TypeShape("Object", <<f>>, {}, {}), "A")>>) :
            f \in WideFields}
    \cup {Doc(<<SchemaOf(<<>>)>>, <<Named(TypeShape(k, fs, {}, {}), "A")>>) :
            k \in {"Object", "Interface", "InputObject"},
            fs \in FieldDefLists(MaxFieldDefs)}
    \cup {Doc(<<SchemaOf(<<>>)>>, ts) : ts \in TypeLists}
    \cup {Doc(<<>>, ts) : ts \in SeqsUpTo({Named(TypeShape("Scalar", <<>>, {}, {}), "A")}, 1)}

InitLower ==
    /\ pc = "lower"
    /\ document \in Documents
    /\ schema = <<>>
    /\ lowered_config = NoResult
    /\ CallIdle
    /\ IntroIdle
    /\ ServerIdle
    /\ CtxIdle

\* line 23: schema_definition(&doc)
SchemaDefinition ==
    /\ pc = "lower"
    /\ LET sd == schema_definition(document) IN
       IF sd.kind = "succeed"
       THEN /\ schema' = Some(sd.value)
            /\ pc' = "schema found"
            /\ UNCHANGED lowered_config
       ELSE /\ lowered_config' = sd
            /\ pc' = "lowered"
            /\ UNCHANGED schema
    /\ UNCHANGED <<document, callVars, introVars, serverVars, ctxVars>>

\* lines 24-25: .and_then(|sd| server(sd).zip(upstream(sd)).zip(graphql(&doc, sd))).map(..)
LowerConfig ==
    /\ pc = "schema found"
    /\ lowered_config' = lower_config(document, Unwrap(schema))
    /\ pc' = "lowered"
    /\ UNCHANGED <<document, schema, callVars, introVars, serverVars, ctxVars>>

NextLower == SchemaDefinition \/ LowerConfig

SpecLower == InitLower /\ [][NextLower]_vars

---------------------------------------------------------------------------
(* Vocabulary of the properties of lowering                                *)

LoweringDone == pc = "lowered"
SchemaFound == document.schema # <<>>
LoweredOk == LoweringDone /\ lowered_config.kind = "succeed"
RootBlocks == IF SchemaFound THEN Head(document.schema).directives ELSE <<>>
TypeDefs == document.types
HasFieldDefs(td) == td.kind \in {"Object", "Interface", "InputObject"}
\* the positions <<type, field>> of the field definitions that are lowered
FieldPositions ==
    {p \in (DOMAIN TypeDefs) \X (1..Len(FieldNames)) :
        HasFieldDefs(TypeDefs[p[1]]) /\ p[2] \in DOMAIN TypeDefs[p[1]].fields}
FieldDefAt(p) == TypeDefs[p[1]].fields[p[2]]
\* the directive blocks decoded for a field definition: its own, and those
\* of its arguments (an input-object field is lowered without arguments)
RECURSIVE ArgumentBlocks(_)
ArgumentBlocks(arguments) ==
    IF arguments = <<>> THEN <<>>
    ELSE Head(arguments).directives \o ArgumentBlocks(Tail(arguments))
BlocksOf(p) ==
    FieldDefAt(p).directives \o
    (IF TypeDefs[p[1]].kind = "InputObject" THEN <<>>
     ELSE ArgumentBlocks(FieldDefAt(p).arguments))
MalformedIn(blocks) == {i \in DOMAIN blocks : ~blocks[i].ok}
Diagnostics == ErrorsOf(lowered_config)
LoweredTypes == lowered_config.value.graphql.types
LoweredField(p) == LoweredTypes[TypeDefs[p[1]].name].fields[FieldDefAt(p).name]
Count(b) == IF b THEN 1 ELSE 0

\* C11: in a document with a schema definition whose root directives are
\* well formed and in which N fields have one malformed directive block
\* each (the others none), lowering reports exactly N diagnostics: a
\* failure with N errors when N > 0, a Config when N = 0.
C11_OneDiagnosticPerDefect ==
    (/\ LoweringDone /\ SchemaFound
     /\ MalformedIn(RootBlocks) = {}
     /\ \A p \in FieldPositions : Cardinality(MalformedIn(BlocksOf(p))) <= 1)
    => LET N == Cardinality({p \in FieldPositions : MalformedIn(BlocksOf(p)) # {}})
       IN  /\ Len(Diagnostics) = N
           /\ lowered_config.kind = (IF N = 0 THEN "succeed" ELSE "fail")

\* the value the last block of the name that sets the setting gives it, or
\* the default when no block sets it
LastWrite(name, setting) ==
    LET writes == {i \in DOMAIN RootBlocks :
                      /\ RootBlocks[i].name = name
                      /\ setting \in DOMAIN RootBlocks[i].arguments}
    IN  IF writes = {} THEN Default(name)[setting]
        ELSE RootBlocks[CHOOSE i \in writes : \A j \in writes : j <= i].arguments[setting]

\* C12: when every server and upstream block of the schema definition is
\* well formed, each setting of the lowered server and upstream has the
\* value of the last block of that name that sets it: a setting given only
\* in an earlier block is kept, one given in both has the later value.
C12_LastWriteWinsMerge ==
    (LoweredOk /\ MalformedIn(RootBlocks) = {})
    => \A setting \in {"port", "hostname"} :
          /\ lowered_config.value.server[setting] = LastWrite("server", setting)
          /\ lowered_config.value.upstream[setting] = LastWrite("upstream", setting)

\* the names of the malformed blocks that lowering decodes
MalformedNames ==
    {RootBlocks[i].name : i \in MalformedIn(RootBlocks)}
    \cup UNION {{BlocksOf(p)[i].name : i \in MalformedIn(BlocksOf(p))} : p \in FieldPositions}
Labelled(name) ==
    \E k \in DOMAIN Diagnostics :
        \E j \in DOMAIN Diagnostics[k].trace : Diagnostics[k].trace[j] = name

\* C13: in a document with a schema definition, a malformed block of any
\* decoded directive kind makes lowering fail with a diagnostic labelled
\* with the directive's name.
C13_MalformedIsFailure ==
    (LoweringDone /\ SchemaFound)
    => \A name \in MalformedNames :
          lowered_config.kind = "fail" /\ Labelled(name)

\* what holds of the code: defects of http and graphql blocks accumulate,
\* one diagnostic for each field whose only http or graphql block is malformed
C11_ReportedKindsAccumulate ==
    (/\ LoweringDone /\ SchemaFound
     /\ MalformedIn(RootBlocks) = {}
     /\ \A p \in FieldPositions :
           /\ Cardinality(MalformedIn(BlocksOf(p))) <= 1
           /\ \A i \in MalformedIn(BlocksOf(p)) :
                 /\ BlocksOf(p)[i].name \in {"http", "graphql"}
                 /\ \A j \in DOMAIN BlocksOf(p) :
                       BlocksOf(p)[j].name = BlocksOf(p)[i].name => j = i)
    => LET N == Cardinality({p \in FieldPositions : MalformedIn(BlocksOf(p)) # {}})
       IN  /\ Len(Diagnostics) = N
           /\ lowered_config.kind = (IF N = 0 THEN "succeed" ELSE "fail")

---------------------------------------------------------------------------
UnionDefs == {i \in DOMAIN TypeDefs : TypeDefs[i].kind = "Union"}
NamesOf(positions) == {TypeDefs[i].name : i \in positions}

\* C15: after lowering a document whose type names are distinct, the unions
\* table has exactly the union definitions, each under its name with its
\* member type names, and the type map has exactly the other definitions.
C15_UnionsInSideTable ==
    LoweredOk =>
        LET g == lowered_config.value.graphql IN
        /\ DOMAIN g.unions = NamesOf(UnionDefs)
        /\ \A i \in UnionDefs : g.unions[TypeDefs[i].name].types = TypeDefs[i].members
        /\ DOMAIN g.types = NamesOf(DOMAIN TypeDefs \ UnionDefs)
        /\ DOMAIN g.types \cap DOMAIN g.unions = {}
C15_Witness ==
    /\ LoweredOk
    /\ Len(TypeDefs) = 2
    /\ TypeDefs[1].kind = "Union" /\ TypeDefs[1].members = {"A", "B"}
    /\ TypeDefs[2].kind = "Object" /\ Len(TypeDefs[2].fields) = 1
    /\ lowered_config.value.graphql.unions = [n \in {"A"} |-> [types |-> {"A", "B"}]]
    /\ DOMAIN lowered_config.value.graphql.types = {"B"}

---------------------------------------------------------------------------
\* C16: every Type of the lowered type map has exactly one of: fields,
\* variants, the scalar flag.
C16_ExactlyOneShape ==
    LoweredOk =>
        \A n \in DOMAIN LoweredTypes :
            Count(DOMAIN LoweredTypes[n].fields # {})
            + Count(IsSome(LoweredTypes[n].variants))
            + Count(LoweredTypes[n].scalar) = 1

\* what holds of the code: never two of them, and none only for a
\* definition without fields
C16_AtMostOneShape ==
    LoweredOk =>
        \A i \in DOMAIN TypeDefs \ UnionDefs :
            LET t == LoweredTypes[TypeDefs[i].name]
                shapes == Count(DOMAIN t.fields # {}) + Count(IsSome(t.variants))
                          + Count(t.scalar)
            IN  shapes = (IF HasFieldDefs(TypeDefs[i]) /\ TypeDefs[i].fields = <<>>
                          THEN 0 ELSE 1)

---------------------------------------------------------------------------
ResolverSlots(field) ==
    Count(IsSome(field.http)) + Count(IsSome(field.graphql_source))
    + Count(IsSome(field.const_field))

\* C17: every lowered Field has at most one of its resolver slots (http,
\* graphql source, const) set.
C17_AtMostOneResolver ==
    LoweredOk => \A p \in FieldPositions : ResolverSlots(LoweredField(p)) <= 1

\* what holds of the code: each slot is set from the first block of its own
\* kind that decodes (http, graphql: from the first block of the kind)
C17_EachSlotFromItsFirstBlock ==
    LoweredOk =>
        \A p \in FieldPositions :
            LET ds == FieldDefAt(p).directives
                f == LoweredField(p)
                Slot(name) == CASE name = "http" -> f.http
                                [] name = "graphql" -> f.graphql_source
                                [] name = "const" -> f.const_field
            IN  \A name \in {"http", "graphql", "const"} :
                    LET first == {i \in DOMAIN ds :
                                     /\ ds[i].name = name /\ ds[i].ok
                                     /\ \A j \in 1..(i-1) : ~(ds[j].name = name /\ ds[j].ok)}
                    IN  Slot(name) = (IF first = {} THEN None
                                      ELSE Some(ds[CHOOSE i \in first : TRUE].arguments))

---------------------------------------------------------------------------
(* http/server.rs: the server and its request handler                      *)

MaxConnections == 2
MaxBatch == 2

\* the answer of the schema to one query
Answer(query) == "data of " \o query
\* serde_json::from_slice as a GraphQLRequest: one request object
ParseRequest(bytes) ==
    IF bytes.json = "object" THEN Some(bytes.queries) ELSE None
\* serde_json::from_slice as a GraphQLBatchRequest: one request object, or
\* an array of them
ParseBatchRequest(bytes) ==
    IF bytes.json \in {"object", "array"} THEN Some(bytes.queries) ELSE None
\* request.execute(&schema): one result for each request, in order; a
\* single request gives an object, a batch gives an array
Execute(json, queries) ==
    [json |-> json, results |-> [i \in DOMAIN queries |-> Answer(queries[i])],
     cache_control |-> None]
ExecuteError == [error |-> "from_slice"]

\* lines 110-118
SingleRequestExecutor_execute(bytes) ==
    LET request == ParseRequest(bytes)
    IN  IF IsSome(request) THEN Execute("object", Unwrap(request)) ELSE ExecuteError
\* lines 124-132
BatchRequestExecutor_execute(bytes) ==
    LET request == ParseBatchRequest(bytes)
    IN  IF IsSome(request) THEN Execute(bytes.json, Unwrap(request)) ELSE ExecuteError
execute(executor, bytes) ==
    IF executor = "BatchRequestExecutor"
    THEN BatchRequestExecutor_execute(bytes)
    ELSE SingleRequestExecutor_execute(bytes)

\* the executor of a connection, always the single one
make_executor_single_only(server_blueprint) == "SingleRequestExecutor"
\* lines 77-80: the executor make_service_fn creates for a connection
make_executor(server_blueprint) ==
    IF server_blueprint.server.enable_batch_requests
    THEN "BatchRequestExecutor"
    ELSE "SingleRequestExecutor"

\* upstream.get_allowed_headers(): the set of the allowed header names
get_allowed_headers(upstream_blueprint) == upstream_blueprint.allowed_headers
\* A HeaderMap read by iter() is a sequence of <<name, value>> entries, one
\* for each value of each name; a HeaderMap that is built is a function
\* from the names to their value.
\* HeaderMap::insert for each entry in order: the value of a name that is
\* already there is replaced
RECURSIVE insert_each(_, _)
insert_each(new_headers, entries) ==
    IF entries = <<>> THEN new_headers
    ELSE insert_each(Put(new_headers, Head(entries)[1], Head(entries)[2]), Tail(entries))
\* create_allowed_headers that copies every header
create_allowed_headers_unfiltered(headers, allowed) ==
    insert_each(EmptyMap, headers)
\* lines 62-71
create_allowed_headers(headers, allowed) ==
    insert_each(EmptyMap, SelectSeq(headers, LAMBDA entry : entry[1] \in allowed))

graphiql == [status |-> "200 OK", body |-> "GraphiQL", headers |-> EmptyMap,
             req_headers |-> None, executed_by |-> None]
not_found == [status |-> "404 Not Found", body |-> "", headers |-> EmptyMap,
              req_headers |-> None, executed_by |-> None]
\* lines 22-47; ttl is req_ctx.get_min_max_age() after the execution
graphql_request(req, server_ctx, executor, ttl) ==
    LET allowed == get_allowed_headers(server_ctx.upstream)
        headers == create_allowed_headers(req.headers, allowed)
        executed == execute(executor, req.body)
    IN  IF "error" \in DOMAIN executed
        THEN [status |-> "error", body |-> executed.error, headers |-> EmptyMap,
              req_headers |-> Some(headers), executed_by |-> Some(executor)]
        ELSE LET response ==
                    IF server_ctx.server.enable_cache_control_header /\ IsSome(ttl)
                    THEN [executed EXCEPT !.cache_control = ttl]
                    ELSE executed
             IN  [status |-> "200 OK", body |-> response,
                  headers |-> server_ctx.server.response_headers,
                  req_headers |-> Some(headers), executed_by |-> Some(executor)]
\* handle_request that executes a POST whatever its path
handle_request_any_path(req, state, executor, ttl) ==
    CASE req.method = "GET" /\ state.server.enable_graphiql -> graphiql
      [] req.method = "POST" -> graphql_request(req, state, executor, ttl)
      [] OTHER -> not_found
\* lines 51-61
handle_request(req, state, executor, ttl) ==
    CASE req.method = "GET" /\ state.server.enable_graphiql -> graphiql
      [] req.method = "POST" /\ req.path = "/graphql" /\
         ~(req.method = "GET" /\ state.server.enable_graphiql) ->
            graphql_request(req, state, executor, ttl)
      [] OTHER -> not_found

---------------------------------------------------------------------------
(* The inputs of the server                                                *)

Queries == {"q1", "q2"}
Bodies ==
    {[json |-> "object", queries |-> <<q>>] : q \in Queries}
    \cup {[json |-> "array", queries |-> qs] :
            qs \in UNION {[1..n -> Queries] : n \in 1..MaxBatch}}
    \cup {[json |-> "invalid", queries |-> <<>>]}
MaxHeaders == 2
HeaderEntries == {<<"authorization", "1">>, <<"authorization", "2">>, <<"cookie", "1">>}
HeaderMaps == SeqsUpTo(HeaderEntries, MaxHeaders)
Methods == {"GET", "POST", "PUT"}
Paths == {"/graphql", "/", "/graphql/"}
Req(method, path, headers, body) ==
    [method |-> method, path |-> path, headers |-> headers, body |-> body]
OneQuery == [json |-> "object", queries |-> <<"q1">>]
\* every body posted to /graphql; every method and path; every header map
Requests ==
    {Req("POST", "/graphql", <<>>, body) : body \in Bodies}
    \cup {Req(method, path, <<<<"authorization", "1">>>>, body) :
            method \in Methods, path \in Paths,
            body \in {OneQuery, [json |-> "invalid", queries |-> <<>>]}}
    \cup {Req("POST", "/graphql", headers, OneQuery) : headers \in HeaderMaps}
Blueprints ==
    {[server |-> [enable_batch_requests |-> b, enable_graphiql |-> g,
                  enable_cache_control_header |-> c, response_headers |-> hs],
      upstream |-> [allowed_headers |-> allowed]] :
        b \in BOOLEAN, g \in BOOLEAN, c \in BOOLEAN,
        hs \in {EmptyMap, [h \in {"x-served-by"} |-> "gateway"]},
        allowed \in {{}, {"authorization"}, {"Authorization", "cookie"}}}
Ttls == {None, Some("60")}

\* lines 73-74: the blueprint of the configuration, shared by every connection
InitServer ==
    /\ pc = "serving"
    /\ blueprint \in Blueprints
    /\ executors = <<>>
    /\ exchanges = <<>>
    /\ CallIdle
    /\ IntroIdle
    /\ LowerIdle
    /\ CtxIdle

\* lines 75-86: make_service_fn is called for a new connection
Connect ==
    /\ pc = "serving"
    /\ Len(executors) < MaxConnections
    /\ executors' = Append(executors, make_executor(blueprint))
    /\ UNCHANGED <<pc, blueprint, exchanges, callVars, introVars, lowerVars, ctxVars>>

\* lines 82-84: a request arrives on a connection and is handled
HandleRequest ==
    /\ pc = "serving"
    /\ \E conn \in DOMAIN executors, req \in Requests, ttl \in Ttls :
          exchanges' = <<[conn |-> conn, request |-> req,
                          response |-> handle_request(req, blueprint, executors[conn], ttl)]>>
    /\ UNCHANGED <<pc, blueprint, executors, callVars, introVars, lowerVars, ctxVars>>

NextServer == Connect \/ HandleRequest

SpecServer == InitServer /\ [][NextServer]_vars

---------------------------------------------------------------------------
BatchEnabled == blueprint.server.enable_batch_requests
\* the handled request is a POST to /graphql whose body is an array of queries
BatchPosted(x) ==
    /\ x.request.method = "POST" /\ x.request.path = "/graphql"
    /\ ~blueprint.server.enable_graphiql \/ x.request.method # "GET"
    /\ x.request.body.json = "array"

---------------------------------------------------------------------------
\* the three outcomes of handle_request, read from an exchange
GotGraphiQL(x) ==
    /\ x.response.executed_by = None
    /\ x.response.status = graphiql.status
    /\ x.response.body = graphiql.body
GotExecuted(x) ==
    /\ IsSome(x.response.executed_by)
    /\ IsSome(x.response.req_headers)
    /\ x.response.status \in {"200 OK", "error"}
GotNotFound(x) ==
    /\ x.response.executed_by = None
    /\ x.response.status = not_found.status
    /\ x.response.body = not_found.body
\* the outcome that method, path and enable_graphiql determine
Routed(method, path, enable_graphiql) ==
    IF method = "GET" /\ enable_graphiql THEN "graphiql"
    ELSE IF method = "POST" /\ path = "/graphql" THEN "graphql_request"
    ELSE "not_found"

\* C21: every request is answered with exactly one of three outcomes, fixed
\* by its method, its path and enable_graphiql alone: a GET with
\* enable_graphiql gets the GraphiQL page whatever its path, a POST to
\* exactly "/graphql" is executed, and every other request gets 404 Not
\* Found and is not passed to the executor.
C21_ThreeOutcomes ==
    \A k \in DOMAIN exchanges :
        LET x == exchanges[k]
            routed == Routed(x.request.method, x.request.path,
                             blueprint.server.enable_graphiql)
        IN  /\ GotGraphiQL(x) <=> routed = "graphiql"
            /\ GotExecuted(x) <=> routed = "graphql_request"
            /\ GotNotFound(x) <=> routed = "not_found"
            /\ routed # "graphql_request" =>
                    x.response.executed_by = None /\ x.response.req_headers = None
C21_Witness ==
    /\ exchanges # <<>>
    /\ ~blueprint.server.enable_graphiql
    /\ exchanges[1].request.method = "POST"
    /\ exchanges[1].request.path = "/graphql/"
    /\ exchanges[1].request.body = OneQuery
    /\ exchanges[1].response.status = "404 Not Found"
    /\ exchanges[1].response.executed_by = None

---------------------------------------------------------------------------
Allowed == get_allowed_headers(blueprint.upstream)
\* the headers of the request context built for an executed request
Forwarded(x) == Unwrap(x.response.req_headers)
\* the entries of a request's headers whose name is allowed, in order
AllowedEntries(headers) == SelectSeq(headers, LAMBDA entry : entry[1] \in Allowed)
OnlyAllowedForwarded(x) ==
    /\ \A name \in DOMAIN Forwarded(x) :
          /\ name \in Allowed
          /\ \E i \in DOMAIN x.request.headers :
                x.request.headers[i] = <<name, Forwarded(x)[name]>>
    /\ \A i \in DOMAIN x.request.headers :
          x.request.headers[i][1] \in Allowed =>
              x.request.headers[i][1] \in DOMAIN Forwarded(x)
\* two requests handled one after the other
SameAllowedSameForwarded(x, y) ==
    (/\ GotExecuted(x) /\ GotExecuted(y)
     /\ AllowedEntries(x.request.headers) = AllowedEntries(y.request.headers))
    => Forwarded(x) = Forwarded(y)

\* C22: the request context of an executed request holds only headers with
\* an allowed name: every forwarded entry is an entry of the incoming
\* headers with an allowed name, every allowed name among the incoming
\* headers is forwarded, and two requests that differ only in headers that
\* are not allowed have the same forwarded headers.
C22_OnlyAllowedHeaders ==
    /\ [](\A k \in DOMAIN exchanges :
            GotExecuted(exchanges[k]) => OnlyAllowedForwarded(exchanges[k]))
    /\ [][(exchanges # <<>> /\ exchanges' # <<>>)
            => SameAllowedSameForwarded(exchanges[1], exchanges'[1])]_vars
C22_Witness ==
    /\ exchanges # <<>>
    /\ Allowed = {"authorization"}
    /\ exchanges[1].request.headers = <<<<"cookie", "1">>, <<"authorization", "2">>>>
    /\ GotExecuted(exchanges[1])
    /\ Forwarded(exchanges[1]) = [name \in {"authorization"} |-> "2"]

---------------------------------------------------------------------------
(* lambda/resolver_context_like.rs: the resolver contexts                  *)

MaxWithArgs == 2
MaxErrors == 1

\* serde_json::Value::to_string: the JSON text of the value
to_string(v) == IF v.json = "String" THEN "\"" \o v.text \o "\"" ELSE v.text
\* async_graphql::Value::from(String)
ValueFrom(string) == [kind |-> "String", value |-> string]
\* IndexMap::extend: the entries of the other map are inserted, replacing
\* the value of a key that is already there
extend_keeps_existing(map, other) ==
    [k \in DOMAIN map \cup DOMAIN other |-> IF k \in DOMAIN map THEN map[k] ELSE other[k]]
extend(map, other) ==
    [k \in DOMAIN map \cup DOMAIN other |-> IF k \in DOMAIN other THEN other[k] ELSE map[k]]

EmptyResolverContext == [kind |-> "EmptyResolverContext"]
\* async_graphql's ResolverContext: the parent value, if it is a Value, the
\* arguments and the selection field of the query context
ResolverContext(parent_value, arguments, selection_field) ==
    [kind |-> "ResolverContext", parent_value |-> parent_value,
     args |-> arguments, field |-> selection_field]
\* lines 14-19
ResolverContextWithArgs_new(source, arguments) ==
    [kind |-> "ResolverContextWithArgs", source |-> source, args |-> arguments]
\* lines 39-44, 77-82, 98-103
ResolverContextLike_with_args(self, arguments) ==
    ResolverContextWithArgs_new(self, arguments)

\* lines 23-25, 69-71, 90-92
RECURSIVE ResolverContextLike_value(_)
ResolverContextLike_value(self) ==
    CASE self.kind = "ResolverContextWithArgs" -> ResolverContextLike_value(self.source)
      [] self.kind = "EmptyResolverContext" -> None
      [] self.kind = "ResolverContext" -> self.parent_value
\* line 34: self.source.args().map(|_args| args.extend(_args.clone()))
extend_with(own, source_args) ==
    IF IsSome(source_args) THEN extend(own, Unwrap(source_args)) ELSE own
\* lines 27-37, 73-75, 94-96
RECURSIVE ResolverContextLike_args(_)
ResolverContextLike_args(self) ==
    CASE self.kind = "ResolverContextWithArgs" ->
            Some(extend_with([k \in DOMAIN self.args |-> ValueFrom(to_string(self.args[k]))],
                             ResolverContextLike_args(self.source)))
      [] self.kind = "EmptyResolverContext" -> None
      [] self.kind = "ResolverContext" -> Some(self.args)
\* lines 46-48, 84-86, 105-107
RECURSIVE ResolverContextLike_field(_)
ResolverContextLike_field(self) ==
    CASE self.kind = "ResolverContextWithArgs" -> ResolverContextLike_field(self.source)
      [] self.kind = "EmptyResolverContext" -> None
      [] self.kind = "ResolverContext" -> Some(self.field)
\* lines 50-52, 88, 109-111: the errors of the query context afterwards
RECURSIVE ResolverContextLike_add_error(_, _, _)
ResolverContextLike_add_error(self, error, errors) ==
    CASE self.kind = "ResolverContextWithArgs" ->
            ResolverContextLike_add_error(self.source, error, errors)
      [] self.kind = "EmptyResolverContext" -> errors
      [] self.kind = "ResolverContext" -> Append(errors, error)

---------------------------------------------------------------------------
(* The inputs of the resolver contexts                                     *)

ArgNames == {"id", "x"}
JsonValues == {[json |-> "String", text |-> "a"], [json |-> "Number", text |-> "1"]}
ArgMaps == UNION {[names -> JsonValues] : names \in SUBSET ArgNames}
BaseArgs == {EmptyMap, [k \in {"id"} |-> [kind |-> "Number", value |-> "7"]]}
BaseContexts ==
    {EmptyResolverContext}
    \cup {ResolverContext(parent_value, arguments, "f") :
            parent_value \in {None, Some([kind |-> "String", value |-> "p"])},
            arguments \in BaseArgs}
ServerErrors == {"e1", "e2"}

InitCtx ==
    /\ pc = "resolving"
    /\ base_ctx \in BaseContexts
    /\ context = base_ctx
    /\ supplied = <<>>
    /\ ctx_errors = <<>>
    /\ reported = <<>>
    /\ CallIdle
    /\ IntroIdle
    /\ LowerIdle
    /\ ServerIdle

\* lines 39-44: with_args on the context built so far
WithArgs ==
    /\ pc = "resolving"
    /\ Len(supplied) < MaxWithArgs
    /\ \E arguments \in ArgMaps :
          /\ context' = ResolverContextLike_with_args(context, arguments)
          /\ supplied' = Append(supplied, arguments)
    /\ UNCHANGED <<pc, base_ctx, ctx_errors, reported, callVars, introVars, lowerVars,
                   serverVars>>

\* lines 50-52: add_error on the context built so far
AddError ==
    /\ pc = "resolving"
    /\ Len(reported) < MaxErrors
    /\ \E error \in ServerErrors :
          /\ ctx_errors' = ResolverContextLike_add_error(context, error, ctx_errors)
          /\ reported' = Append(reported, error)
    /\ UNCHANGED <<pc, base_ctx, supplied, context, callVars, introVars, lowerVars,
                   serverVars>>

NextCtx == WithArgs \/ AddError

SpecCtx == InitCtx /\ [][NextCtx]_vars

---------------------------------------------------------------------------
\* the arguments of the base context itself
OwnArgs == IF base_ctx.kind = "ResolverContext" THEN base_ctx.args ELSE EmptyMap
SuppliedNames == UNION {DOMAIN supplied[i] : i \in DOMAIN supplied}
\* the first of the supplied maps that has the name
FirstWith(name) ==
    CHOOSE i \in DOMAIN supplied :
        /\ name \in DOMAIN supplied[i]
        /\ \A j \in 1..(i-1) : name \notin DOMAIN supplied[j]

\* C23: once with_args was called, args() is Some map over the argument
\* names of the base context and the keys of every supplied map; the value
\* of the base context wins, then the value of the map that was supplied
\* first; value() and field() are those of the base context, and the errors
\* given to add_error are the errors the base context was given.
C23_BaseThenEarliestWins ==
    supplied # <<>> =>
        /\ IsSome(ResolverContextLike_args(context))
        /\ DOMAIN Unwrap(ResolverContextLike_args(context))
              = DOMAIN OwnArgs \cup SuppliedNames
        /\ \A name \in DOMAIN OwnArgs \cup SuppliedNames :
              Unwrap(ResolverContextLike_args(context))[name] =
                  (IF name \in DOMAIN OwnArgs THEN OwnArgs[name]
                   ELSE ValueFrom(to_string(supplied[FirstWith(name)][name])))
        /\ ResolverContextLike_value(context) = ResolverContextLike_value(base_ctx)
        /\ ResolverContextLike_field(context) = ResolverContextLike_field(base_ctx)
        /\ ctx_errors = (IF base_ctx.kind = "ResolverContext" THEN reported ELSE <<>>)
C23_Witness ==
    /\ base_ctx.kind = "ResolverContext"
    /\ DOMAIN base_ctx.args = {"id"}
    /\ Len(supplied) = 2
    /\ supplied[1] = [k \in {"x"} |-> [json |-> "String", text |-> "a"]]
    /\ supplied[2] = [k \in {"id", "x"} |-> [json |-> "Number", text |-> "1"]]
    /\ Unwrap(ResolverContextLike_args(context))["id"] = [kind |-> "Number", value |-> "7"]
    /\ Unwrap(ResolverContextLike_args(context))["x"] = ValueFrom("\"a\"")
    /\ reported # <<>>
    /\ ctx_errors = reported

====
